---- MODULE Spec2Model ----
(***************************************************************************)
(* Model of the ReMaster auth service: the AuthService orchestrator        *)
(* (services/auth/services/service.go), the Mongo-backed repository       *)
(* (authRepositoryImpl) and the JWT utilities (services/auth/utils/jwt.go).*)
(*                                                                         *)
(* Every repository call is one atomic step (a single-document MongoDB     *)
(* operation); the orchestrator's local computation is merged into the     *)
(* store step that follows or precedes it.  Each request runs on its own   *)
(* handler "process" p; the store (users, tokens) and the clock are shared.*)
(* The api-gateway middleware (RequireAuth, RateLimiter) runs on the same   *)
(* handler processes; its Redis is the variable rdb.                       *)
(***************************************************************************)
EXTENDS Integers, Sequences, FiniteSets, TLC

(* ------------------------------ bounds --------------------------------- *)
NumProcs == 2     \* request handlers

(* ------------------------- program constants --------------------------- *)
MaxLoginAttempts == 5
TicksPerSecond == 2                             \* clock resolution of the model
LockoutDuration == 15 * 60 * TicksPerSecond     \* 15 * time.Minute
MaxRetries == 3                                 \* backoff.WithMaxRetries(_, 3)
AccessTokenTTL == 3                             \* jwtConfig.AccessTokenTTL  (ticks)
RefreshTokenTTL == 5                            \* jwtConfig.RefreshTokenTTL (ticks)

Procs == 1..NumProcs
NoTime == 0 - 1                                 \* a nil *time.Time
ZeroTime == 0 - 1000000                         \* time.Time{}: year 1, long before the epoch
SecretKey == "secretKey"                        \* jwtConfig.SecretKey

VARIABLES
  users,     \* collection "users": sequence of documents, users[i].id = i
  tokens,    \* collection "refresh_tokens": sequence of documents
  now,       \* time.Now(), in ticks
  procs,     \* per request handler: program counter, request, locals, result
  jwt,       \* a token handed to JWTUtils and what ValidateAccessToken answered
  events,    \* history: successful authentication events
  ncalls,    \* history: requests started
  nticks,    \* history: clock advances
  rdb,       \* the gateway's Redis: per key, its counter and its expiry
  passed     \* history: requests the RateLimiter let through to the handler

vars == <<users, tokens, now, procs, jwt, events, ncalls, nticks, rdb, passed>>

(* ------------------------------ models --------------------------------- *)
\* models.User (zero value); id = 0 stands for a nil *User
NoUser ==
  [id |-> 0, email |-> "", password |-> <<>>, userType |-> "",
   isActive |-> FALSE, isVerified |-> FALSE, loginAttempts |-> 0,
   lockedUntil |-> NoTime, lastLoginAt |-> NoTime, lastLoginIP |-> "", createdAt |-> 0]

\* models.RefreshToken (zero value); id = 0 stands for a nil *RefreshToken
NoToken ==
  [id |-> 0, userId |-> 0, token |-> 0, expiresAt |-> 0, createdAt |-> 0,
   isRevoked |-> FALSE, meta |-> ""]

\* models.RequestMetadata: device id, user agent and IP travel together
NoMeta == ""

\* utils.CustomClaims (zero value)
NoClaims ==
  [user_id |-> 0, email |-> "", user_type |-> "", expires_at |-> ZeroTime,
   exp |-> 0, iat |-> 0]

\* no access token: an empty encoded payload under no signature
NoPayload ==
  [user_id |-> 0, email |-> "", user_type |-> "", expires_at |-> 0, exp |-> 0, iat |-> 0]

NoAccess == [payload |-> NoPayload, sig |-> <<"", NoPayload>>]

\* no Authorization header: the empty string
NoHeader == [prefix |-> "", token |-> NoAccess]

\* client addresses seen by the gateway (gin.Context.ClientIP)
IPs == {"10.0.0.1", "10.0.0.2"}

\* a Redis key that does not exist; expireAt = NoTime is a key without a TTL
NoKey == [exists |-> FALSE, count |-> 0, expireAt |-> NoTime, gen |-> 0]

\* an empty Redis
NoRedis == [ip \in IPs |-> NoKey]

\* JWTUtils used on its own: the arguments of GenerateAccessToken and the key
\* that signed, the token, and what ValidateAccessToken answered at time at
NoJWT ==
  [key |-> "", userID |-> 0, email |-> "", userType |-> "", issuedAt |-> 0,
   token |-> NoAccess, validated |-> FALSE, ok |-> FALSE, claims |-> NoClaims, at |-> 0]

\* an external identity token: whether the provider accepts it, and its email
NoIDToken == [valid |-> FALSE, email |-> ""]

(* ------------------------------- hex ----------------------------------- *)
\* a string of hexadecimal digits: how many digits, and the number they spell
HexString(digits, n) == [digits |-> digits, n |-> n]

\* hex.EncodeToString of the 32 random bytes of a refresh token value
EncodeToString(value) == HexString(64, value)

\* primitive.ObjectID.Hex(): the 12 bytes of a document id
Hex(id) == HexString(24, id)

\* primitive.ObjectIDFromHex: the id a string of exactly 24 digits spells,
\* ErrInvalidHex for any other length
ObjectIDFromHex(str) ==
  IF str.digits = 24 THEN [ok |-> TRUE, id |-> str.n] ELSE [ok |-> FALSE, id |-> 0]

(* --------------------------- shared/errors ----------------------------- *)
\* no response yet
NoRes ==
  [kind |-> "none", msg |-> "", userId |-> 0, access |-> NoAccess, refresh |-> 0,
   expiresAt |-> 0, userType |-> "", isActive |-> FALSE, isVerified |-> FALSE]

\* AppError as seen by the caller: its ErrorType and Message
Err(kind, msg) == [NoRes EXCEPT !.kind = kind, !.msg = msg]

\* the two versions of package errors in the tree: in types.go every
\* constructor returns its own struct embedding AppError, in the other one
\* (part_002) every constructor returns *AppError
Builds == {"types.go", "part_002"}

\* the constructors: ErrorType, Code, and the struct the types.go version returns
Constructors ==
  {[name |-> "NewValidationError", type |-> "Validation", code |-> "VALIDATION_ERROR",
    wrapper |-> "*ValidationError"],
   [name |-> "NewConflictError", type |-> "Conflict", code |-> "CONFLICT_ERROR",
    wrapper |-> "*ConflictError"],
   [name |-> "NewDatabaseError", type |-> "Database", code |-> "DATABASE_ERROR",
    wrapper |-> "*DatabaseError"],
   [name |-> "NewInternalError", type |-> "Internal", code |-> "INTERNAL_ERROR",
    wrapper |-> "*InternalError"],
   [name |-> "NewNotFoundError", type |-> "NotFound", code |-> "NOT_FOUND",
    wrapper |-> "*NotFoundError"],
   [name |-> "NewUnauthorizedError", type |-> "Unauthorized", code |-> "UNAUTHORIZED",
    wrapper |-> "*UnauthorizedError"],
   [name |-> "NewForbiddenError", type |-> "Forbidden", code |-> "FORBIDDEN",
    wrapper |-> "*ForbiddenError"],
   [name |-> "NewBadRequestError", type |-> "BadRequest", code |-> "BAD_REQUEST",
    wrapper |-> "*BadRequestError"],
   [name |-> "NewRateLimitError", type |-> "RateLimit", code |-> "RATE_LIMIT_EXCEEDED",
    wrapper |-> "*RateLimitError"]}

\* no error
NoError == [dyn |-> "nil", type |-> "", code |-> "", message |-> ""]

\* the error value a constructor returns: its dynamic type and the AppError fields
NewError(build, c, msg) ==
  [dyn |-> IF build = "types.go" THEN c.wrapper ELSE "*AppError",
   type |-> c.type, code |-> c.code, message |-> msg]

\* err.(*AppError): the dynamic type must be exactly *AppError
IsAppError(err) == err.dyn = "*AppError"

\* ErrorHandler.mapToGrpcCode, the code by its codes.Code.String()
mapToGrpcCode(errorType) ==
  CASE errorType = "Validation" -> "InvalidArgument"
    [] errorType = "NotFound" -> "NotFound"
    [] errorType = "Conflict" -> "AlreadyExists"
    [] errorType = "Unauthorized" -> "Unauthenticated"
    [] errorType = "Forbidden" -> "PermissionDenied"
    [] errorType = "BadRequest" -> "InvalidArgument"
    [] errorType = "RateLimit" -> "ResourceExhausted"
    [] errorType = "Database" -> "Internal"
    [] OTHER -> "Internal"

\* no gRPC status
NoStatus == [code |-> "OK", message |-> ""]

\* ErrorHandler.HandleGrpcError: the gRPC status sent for an error
HandleGrpcError(err) ==
  IF IsAppError(err)
    THEN [code |-> mapToGrpcCode(err.type), message |-> err.message]
    ELSE [code |-> "Internal", message |-> "Internal server error"]

\* ErrorHandler.grpcToHTTP
grpcToHTTP(code) ==
  CASE code = "OK" -> 200
    [] code = "InvalidArgument" -> 400
    [] code = "NotFound" -> 404
    [] code = "AlreadyExists" -> 409
    [] code = "PermissionDenied" -> 403
    [] code = "ResourceExhausted" -> 429
    [] code = "Unauthenticated" -> 401
    [] OTHER -> 500

\* ErrorHandler.HandleGrpcToHttp: the ErrorResponse the gateway writes for a
\* gRPC status; its Code is the name of the gRPC code
HandleGrpcToHttp(st) ==
  [status |-> grpcToHTTP(st.code), success |-> FALSE, error |-> st.message, code |-> st.code]

\* the error value behind an error answer of the service
ErrorOf(build, res) ==
  NewError(build, CHOOSE c \in Constructors : c.type = res.kind, res.msg)

\* a "no such account" answer that says so
UserNotFoundError_Distinct == Err("NotFound", "user not found")

\* AuthenticateUser, GetByEmail found no document
UserNotFoundError == Err("Unauthorized", "invalid email or password")

\* AuthenticateUser, the password does not match the stored digest
InvalidPasswordError == Err("Unauthorized", "invalid email or password")

\* models.AuthResponse / RefreshTokenResponse
Bundle(user, access, refresh, expiresAt) ==
  [NoRes EXCEPT !.kind = "ok", !.userId = user.id, !.access = access, !.refresh = refresh,
                !.expiresAt = expiresAt, !.userType = user.userType,
                !.isActive = user.isActive, !.isVerified = user.isVerified]

(* ------------------- models.RegisterRequest validation ----------------- *)
\* a Go string with the measures the code takes of it: len() is its length in
\* bytes, a character of the text may take more than one byte, and blank says
\* strings.TrimSpace leaves nothing
Text(text, runes, bytes, blank) ==
  [text |-> text, runes |-> runes, bytes |-> bytes, blank |-> blank]

\* len(s)
len(s) == s.bytes

\* strings.TrimSpace(s) == ""
TrimSpaceIsEmpty(s) == s.blank

\* net/mail.ParseAddress: nil error for an addr-spec local@domain
ParseAddress(email) == email \in {"a@x.com", "A@x.com", "nobody@x.com"}

\* the request of the calls that carry no RegisterRequest of their own
NoRequest ==
  [email |-> "", password |-> Text("", 0, 0, TRUE), firstName |-> Text("", 0, 0, TRUE),
   lastName |-> Text("", 0, 0, TRUE), userType |-> "client"]

\* RegisterRequest.ValidateRegisterRequest: TRUE when it returns nil
ValidateRegisterRequest(req) ==
  /\ ParseAddress(req.email)
  /\ ~(len(req.password) < 8)
  /\ ~(TrimSpaceIsEmpty(req.firstName) \/ len(req.firstName) < 2 \/ len(req.firstName) > 50)
  /\ ~(TrimSpaceIsEmpty(req.lastName) \/ len(req.lastName) < 2 \/ len(req.lastName) > 50)
  /\ req.userType \in {"master", "client"}

\* a request handler that has not received a request
Idle ==
  [pc |-> "idle", op |-> "none", email |-> "", password |-> "", newPassword |-> "",
   valid |-> TRUE, meta |-> NoMeta, provider |-> "", idToken |-> NoIDToken,
   refreshArg |-> 0, logoutArg |-> HexString(0, 0), revokedBefore |-> FALSE,
   accessArg |-> NoAccess, userIdArg |-> 0,
   user |-> NoUser, stored |-> NoToken, tries |-> 0, creates |-> 0, conflicts |-> 0,
   req |-> NoRequest, requests |-> 0, gaveUp |-> FALSE, ctxDone |-> FALSE, callsAtCancel |-> 0, attempts |-> 0, callNo |-> 0, checkedAt |-> 0, streak |-> 0, lastFailedAt |-> NoTime,
   consumedBefore |-> FALSE, existedBefore |-> FALSE, err |-> NoError, wire |-> NoStatus,
   build |-> "", authHeader |-> NoHeader, admitted |-> FALSE,
   ip |-> "", count |-> 0, gen |-> 0,
   res |-> NoRes]

(* ------------------------------- time ---------------------------------- *)
\* time.Time.Unix(): whole seconds
Unix(t) == t \div TicksPerSecond

\* jwt.NewNumericDate: truncation to jwt.TimePrecision (one second)
NewNumericDate(t) == Unix(t) * TicksPerSecond

(* ----------------------------- bcrypt ---------------------------------- *)
\* bcrypt.GenerateFromPassword: one-way digest of the password
GenerateFromPassword(pw) == <<"bcrypt", pw>>

\* bcrypt.CompareHashAndPassword: nil error iff the digest was made from pw
CompareHashAndPassword(hash, pw) == hash = GenerateFromPassword(pw)

(* ------------------------------- jwt ----------------------------------- *)
\* json.Marshal of CustomClaims: one member per json tag, a NumericDate as its
\* number of seconds
MarshalJSON(claims) ==
  [user_id |-> claims.user_id, email |-> claims.email, user_type |-> claims.user_type,
   expires_at |-> Unix(claims.expires_at), exp |-> Unix(claims.exp),
   iat |-> Unix(claims.iat)]

\* json.Unmarshal into CustomClaims: each member goes to the field with its tag
UnmarshalJSON(payload) ==
  [user_id |-> payload.user_id, email |-> payload.email, user_type |-> payload.user_type,
   expires_at |-> payload.expires_at * TicksPerSecond,
   exp |-> payload.exp * TicksPerSecond, iat |-> payload.iat * TicksPerSecond]

\* HS256 signature over the encoded claims with a key
SignedString(key, payload) == <<key, payload>>

\* JWTUtils.GenerateAccessToken at time t, signing with key: the literal sets
\* RegisteredClaims.ExpiresAt ("exp"); CustomClaims.ExpiresAt ("expires_at") stays zero
GenerateAccessTokenWith(key, userID, email, userType, t) ==
  LET claims == [user_id |-> userID, email |-> email, user_type |-> userType,
                 expires_at |-> ZeroTime,
                 exp |-> NewNumericDate(t + AccessTokenTTL), iat |-> NewNumericDate(t)]
  IN  [payload |-> MarshalJSON(claims), sig |-> SignedString(key, MarshalJSON(claims))]

GenerateAccessToken(userID, email, userType, t) ==
  GenerateAccessTokenWith(SecretKey, userID, email, userType, t)

\* jwt.ParseWithClaims: the claims a token carries
ParseWithClaims(tok) == UnmarshalJSON(tok.payload)

\* a validator that still accepts the token at the instant of "exp"
NotExpired_Inclusive(claims, t) == t <= claims.exp

\* jwt validator (verifyExpiresAt): the time must be strictly before "exp"
NotExpired(claims, t) == t < claims.exp

\* a verification that accepts every signature
SignatureValid_Any(tok) == TRUE

\* HS256 verification with the service's key
SignatureValid(tok) == tok.sig = SignedString(SecretKey, tok.payload)

\* JWTUtils.ValidateAccessToken at time t: signature, then expiry
ValidateAccessToken(tok, t) ==
  SignatureValid(tok) /\ NotExpired(ParseWithClaims(tok), t)

\* JWTUtils.GenerateRefreshToken: 32 random bytes, hex; n names the draw
GenerateRefreshToken(n) == 1000 + n

(* ---------------------------- repository ------------------------------- *)
\* authRepositoryImpl.GetByEmail: FindOne {"email": email} returns the first
\* matching document in natural order; NoUser is mongo.ErrNoDocuments
GetByEmail(us, email) ==
  LET hits == {i \in DOMAIN us : us[i].email = email}
  IN  IF hits = {} THEN NoUser ELSE us[CHOOSE i \in hits : \A j \in hits : i <= j]

\* authRepositoryImpl.GetByID: FindOne {"_id": id}
GetByID(us, id) == IF id \in DOMAIN us THEN us[id] ELSE NoUser

\* the users collection without its unique index
IsUniqueConstraintError_NoIndex(us, user) == FALSE

\* unique index idx_users_email_unique (EnsureIndexes): duplicate key 11000
IsUniqueConstraintError(us, user) == \E i \in DOMAIN us : us[i].email = user.email

\* User.BeforeCreate
BeforeCreate(user, id, t) ==
  [user EXCEPT !.createdAt = t, !.isActive = TRUE, !.isVerified = FALSE,
               !.loginAttempts = 0, !.id = IF user.id = 0 THEN id ELSE user.id]

\* authRepositoryImpl.Create: the collection after a successful InsertOne
Create(us, user, t) == Append(us, BeforeCreate(user, Len(us) + 1, t))

\* authRepositoryImpl.UpdateLoginInfo
UpdateLoginInfo(us, id, ip, t) ==
  IF id \in DOMAIN us
    THEN [us EXCEPT ![id].lastLoginAt = t, ![id].lastLoginIP = ip] ELSE us

\* a lock that does not reach the store
LockUserAccount_Lost(us, id, duration, t) == us

\* authRepositoryImpl.LockUserAccount
LockUserAccount(us, id, duration, t) ==
  IF id \in DOMAIN us THEN [us EXCEPT ![id].lockedUntil = t + duration] ELSE us

\* a password update that does not reach the store
UpdatePassword_Lost(us, id, hash) == us

\* authRepositoryImpl.UpdatePassword
UpdatePassword(us, id, hashedPassword) ==
  IF id \in DOMAIN us THEN [us EXCEPT ![id].password = hashedPassword] ELSE us

\* authRepositoryImpl.IncrementLoginAttempts: $inc, the collection afterwards
\* a read-then-write increment working from a stale read of zero
IncrementLoginAttempts_Stale(us, id) ==
  IF id \in DOMAIN us THEN [us EXCEPT ![id].loginAttempts = 1] ELSE us

IncrementLoginAttempts(us, id) ==
  IF id \in DOMAIN us THEN [us EXCEPT ![id].loginAttempts = @ + 1] ELSE us

\* a reset that does not reach the store
ResetLoginAttempts_Lost(us, id) == us

\* authRepositoryImpl.ResetLoginAttempts: $set login_attempts 0, $unset locked_until
ResetLoginAttempts(us, id) ==
  IF id \in DOMAIN us
    THEN [us EXCEPT ![id].loginAttempts = 0, ![id].lockedUntil = NoTime] ELSE us

\* authRepositoryImpl.SaveRefreshToken: InsertOne with a fresh ObjectID
SaveRefreshToken_Upsert(ts, tok) ==
  IF \E i \in DOMAIN ts : ts[i].userId = tok.userId
    THEN LET i == CHOOSE k \in DOMAIN ts : ts[k].userId = tok.userId
         IN  [ts EXCEPT ![i] = [tok EXCEPT !.id = i]]
    ELSE Append(ts, [tok EXCEPT !.id = Len(ts) + 1])

SaveRefreshToken(ts, tok) == Append(ts, [tok EXCEPT !.id = Len(ts) + 1])

\* authRepositoryImpl.FindRefreshToken: FindOne {"token": value}
\* a lookup that answers with some stored token when the value is unknown
FindRefreshToken_First(ts, value) ==
  LET hits == {i \in DOMAIN ts : ts[i].token = value}
  IN  IF hits = {} THEN (IF ts = <<>> THEN NoToken ELSE ts[1])
                   ELSE ts[CHOOSE i \in hits : \A j \in hits : i <= j]

FindRefreshToken(ts, value) ==
  LET hits == {i \in DOMAIN ts : ts[i].token = value}
  IN  IF hits = {} THEN NoToken ELSE ts[CHOOSE i \in hits : \A j \in hits : i <= j]

\* a revocation that flips the flag instead of setting it
RevokeRefreshToken_Toggle(ts, id) ==
  [i \in DOMAIN ts |-> IF ts[i].id = id THEN [ts[i] EXCEPT !.isRevoked = ~@] ELSE ts[i]]

\* a revocation that does not reach the store
RevokeRefreshToken_Lost(ts, id) == ts

\* authRepositoryImpl.RevokeRefreshToken: UpdateOne {"_id": id} $set is_revoked
RevokeRefreshToken(ts, id) ==
  IF id \in DOMAIN ts THEN [ts EXCEPT ![id].isRevoked = TRUE] ELSE ts

\* the models.RefreshToken built by the orchestrator before saving
\* a refresh token given the lifetime of an access token
NewRefreshToken_ShortLived(uid, value, t, meta) ==
  [id |-> 0, userId |-> uid, token |-> value, expiresAt |-> t + AccessTokenTTL,
   createdAt |-> t, isRevoked |-> FALSE, meta |-> meta]

NewRefreshToken(uid, value, t, meta) ==
  [id |-> 0, userId |-> uid, token |-> value, expiresAt |-> t + RefreshTokenTTL,
   createdAt |-> t, isRevoked |-> FALSE, meta |-> meta]

(* ----------------------------- helpers --------------------------------- *)
CanStart(p) == procs[p].pc \in {"idle", "done"}

Return(p, res) == [procs[p] EXCEPT !.pc = "done", !.res = res]

\* history: an authentication event as the caller saw it, in order of completion,
\* with the stored locked-until of the user at that moment
Event(op, p, user, access, refresh) ==
  [seq |-> Cardinality(events) + 1, op |-> op, by |-> p, email |-> user.email,
   userId |-> user.id, access |-> access, refresh |-> refresh,
   presented |-> procs[p].refreshArg, at |-> now,
   lockedUntil |-> GetByID(users, user.id).lockedUntil]

\* history: a Login that returned Unauthorized for a wrong password
LoginFailed(p) == Event("LoginFailed", p, procs[p].user, NoAccess, 0)

\* history: the failed Logins of a user since the last successful authentication
FailedSince(uid) ==
  {ev \in events : /\ ev.userId = uid /\ ev.op = "LoginFailed"
                   /\ \A ok \in events :
                        (ok.userId = uid /\ ok.op # "LoginFailed") => ok.seq < ev.seq}

\* history: when the latest of those failed, NoTime if none did
LastFailedAt(uid) ==
  LET fs == FailedSince(uid)
  IN  IF fs = {} THEN NoTime
      ELSE (CHOOSE ev \in fs : \A other \in fs : other.seq <= ev.seq).at

\* issue the token pair, persist the refresh token, return the bundle
\* (service.go: GenerateAccessToken, GenerateRefreshToken, SaveRefreshToken, AuthResponse)
IssueTokens(p, op, user, meta) ==
  LET access  == GenerateAccessToken(user.id, user.email, user.userType, now)
      refresh == GenerateRefreshToken(Len(tokens) + 1)
  IN  /\ tokens' = SaveRefreshToken(tokens, NewRefreshToken(user.id, refresh, now, meta))
      /\ procs' = [procs EXCEPT ![p] =
                     Return(p, Bundle(user, access, refresh, Unix(now + AccessTokenTTL)))]
      /\ events' = events \cup {Event(op, p, user, access, refresh)}

(* ---------------------- AuthService.CreateUser ------------------------- *)
\* a Register request arrives
CreateUserStart(p, email, password, meta, valid) ==
  /\ CanStart(p)
  /\ procs' = [procs EXCEPT ![p] =
       [Idle EXCEPT !.pc = "reg_check", !.op = "Register", !.email = email,
                    !.password = password, !.meta = meta, !.valid = valid,
                    !.existedBefore = GetByEmail(users, email).id # 0]]
  /\ ncalls' = ncalls + 1
  /\ UNCHANGED <<users, tokens, now, jwt, events, nticks, rdb, passed>>

\* AuthHandler.Registration: the RegisterRequest is built from the message and
\* handed to CreateUser, whose first step validates it
RegistrationStart(p, req, meta) ==
  /\ CanStart(p)
  /\ procs' = [procs EXCEPT ![p] =
       [Idle EXCEPT !.pc = "reg_check", !.op = "Register", !.email = req.email,
                    !.password = req.password.text, !.meta = meta, !.req = req,
                    !.valid = ValidateRegisterRequest(req),
                    !.existedBefore = GetByEmail(users, req.email).id # 0]]
  /\ ncalls' = ncalls + 1
  /\ UNCHANGED <<users, tokens, now, jwt, events, nticks, rdb, passed>>

\* req.ValidateRegisterRequest, then GetByEmail: Conflict if the email is taken
CreateUserCheck(p) ==
  /\ procs[p].pc = "reg_check"
  /\ ~procs[p].ctxDone
  /\ LET existing == GetByEmail(users, procs[p].email)
     IN  procs' = [procs EXCEPT ![p] =
           IF ~procs[p].valid
             THEN Return(p, Err("Validation", "failed to validate register request"))
           ELSE IF existing.id # 0
             THEN Return(p, Err("Conflict", "user with this email already exists"))
           ELSE [procs[p] EXCEPT !.pc = "reg_create",
                   !.user = [NoUser EXCEPT !.email = procs[p].email,
                                           !.password = GenerateFromPassword(procs[p].password),
                                           !.userType = procs[p].req.userType]]]
  /\ UNCHANGED <<users, tokens, now, jwt, events, ncalls, nticks, rdb, passed>>

\* one attempt of repo.Create inside backoff.Retry(.., WithMaxRetries(.., 3)):
\* any error is retried until NextBackOff() says Stop, then the last error returns
CreateUserCreate(p) ==
  /\ procs[p].pc = "reg_create"
  /\ ~procs[p].ctxDone
  /\ IF IsUniqueConstraintError(users, procs[p].user)
       THEN /\ procs' = [procs EXCEPT ![p] =
                  IF procs[p].tries < MaxRetries
                    THEN [procs[p] EXCEPT !.tries = @ + 1, !.creates = @ + 1,
                                          !.conflicts = @ + 1]
                    ELSE [Return(p, Err("Conflict", "user with email already exists"))
                            EXCEPT !.creates = @ + 1, !.conflicts = @ + 1]]
            /\ UNCHANGED users
       ELSE /\ users' = Create(users, procs[p].user, now)
            /\ procs' = [procs EXCEPT ![p] =
                  [procs[p] EXCEPT !.pc = "reg_save", !.user = users'[Len(users')],
                                   !.creates = @ + 1]]
  /\ UNCHANGED <<tokens, now, jwt, events, ncalls, nticks, rdb, passed>>

\* one attempt of repo.Create that meets a transient store fault or runs under
\* a context that is done: InsertOne fails, Create returns a Database error,
\* and the retry loop, which is given no context, treats it as it treats any
\* error
CreateUserCreateFault(p) ==
  /\ procs[p].pc = "reg_create"
  /\ procs' = [procs EXCEPT ![p] =
       IF procs[p].tries < MaxRetries
         THEN [procs[p] EXCEPT !.tries = @ + 1, !.creates = @ + 1]
         ELSE [Return(p, Err("Database", "failed to create user")) EXCEPT !.creates = @ + 1]]
  /\ UNCHANGED <<users, tokens, now, jwt, events, ncalls, nticks, rdb, passed>>

\* token pair issued and the refresh token persisted
CreateUserSave(p) ==
  /\ procs[p].pc = "reg_save"
  /\ ~procs[p].ctxDone
  /\ IssueTokens(p, "Register", procs[p].user, procs[p].meta)
  /\ UNCHANGED <<users, now, jwt, ncalls, nticks, rdb, passed>>

\* the GetByEmail check under a context that is done: FindOne fails with an
\* error that is not ErrNoDocuments
CreateUserCheckCancelled(p) ==
  /\ procs[p].pc = "reg_check"
  /\ procs[p].ctxDone
  /\ procs' = [procs EXCEPT ![p] =
       IF ~procs[p].valid
         THEN Return(p, Err("Validation", "failed to validate register request"))
         ELSE Return(p, Err("Database", "failed to check existing user"))]
  /\ UNCHANGED <<users, tokens, now, jwt, events, ncalls, nticks, rdb, passed>>

\* SaveRefreshToken under a context that is done: the user stays created, the
\* call returns the wrapped store error
CreateUserSaveCancelled(p) ==
  /\ procs[p].pc = "reg_save"
  /\ procs[p].ctxDone
  /\ procs' = [procs EXCEPT ![p] = Return(p, Err("Internal", "failed to save refresh token"))]
  /\ UNCHANGED <<users, tokens, now, jwt, events, ncalls, nticks, rdb, passed>>

\* SaveRefreshToken meeting a transient store fault: the tokens were generated,
\* the insert fails, and the call returns the wrapped error; nothing undoes
\* the Create that went before
CreateUserSaveFault(p) ==
  /\ procs[p].pc = "reg_save"
  /\ procs' = [procs EXCEPT ![p] = Return(p, Err("Internal", "failed to save refresh token"))]
  /\ UNCHANGED <<users, tokens, now, jwt, events, ncalls, nticks, rdb, passed>>

(* ------------------- FacebookProvider.VerifyIDToken -------------------- *)
\* VerifyIDToken(ctx, accessToken) is called
FacebookVerifyStart(p, idToken) ==
  /\ CanStart(p)
  /\ procs' = [procs EXCEPT ![p] =
       [Idle EXCEPT !.pc = "fb_debug", !.op = "VerifyIDToken", !.provider = "facebook",
                    !.idToken = idToken]]
  /\ ncalls' = ncalls + 1
  /\ UNCHANGED <<users, tokens, now, jwt, events, nticks, rdb, passed>>

\* http.Get(debugURL): the request is made without the context
FacebookDebugToken(p) ==
  /\ procs[p].pc = "fb_debug"
  /\ procs' = [procs EXCEPT ![p] =
       IF ~procs[p].idToken.valid
         THEN [Return(p, Err("Internal", "facebook: token is invalid")) EXCEPT !.requests = @ + 1]
         ELSE [procs[p] EXCEPT !.pc = "fb_me", !.requests = @ + 1]]
  /\ UNCHANGED <<users, tokens, now, jwt, events, ncalls, nticks, rdb, passed>>

\* http.Get(userURL): the second request, again without the context
FacebookMe(p) ==
  /\ procs[p].pc = "fb_me"
  /\ procs' = [procs EXCEPT ![p] =
       [Return(p, [NoRes EXCEPT !.kind = "ok", !.msg = procs[p].idToken.email])
          EXCEPT !.requests = @ + 1]]
  /\ UNCHANGED <<users, tokens, now, jwt, events, ncalls, nticks, rdb, passed>>

(* ----------------------------- cancellation ---------------------------- *)
\* the caller of the request in flight gives up (cancels, or its deadline
\* passes).  A caller of the gRPC service has its context done (seen); a caller
\* of the gateway's Register has not: the handler derives ctx with its timeout
\* and then calls Registration with the gin context c, whose Done channel is
\* nil on an engine built by gin.New().
Cancel(p, seen) ==
  /\ ~CanStart(p)
  /\ ~procs[p].gaveUp
  /\ procs' = [procs EXCEPT ![p] =
       [procs[p] EXCEPT !.gaveUp = TRUE, !.ctxDone = seen,
                        !.callsAtCancel = procs[p].creates + procs[p].requests]]
  /\ UNCHANGED <<users, tokens, now, jwt, events, ncalls, nticks, rdb, passed>>

(* -------------------- AuthService.AuthenticateUser --------------------- *)
\* a Login request arrives
AuthenticateUserStart(p, email, password, meta) ==
  /\ CanStart(p)
  /\ procs' = [procs EXCEPT ![p] =
       [Idle EXCEPT !.pc = "login_get", !.op = "Login", !.email = email,
                    !.password = password, !.meta = meta, !.callNo = ncalls + 1,
                    !.streak = Cardinality(FailedSince(GetByEmail(users, email).id)),
                    !.lastFailedAt = LastFailedAt(GetByEmail(users, email).id)]]
  /\ ncalls' = ncalls + 1
  /\ UNCHANGED <<users, tokens, now, jwt, events, nticks, rdb, passed>>

\* GetByEmail, then the lock check and the password check on the copy just read
AuthenticateUserGet(p) ==
  /\ procs[p].pc = "login_get"
  /\ LET user == GetByEmail(users, procs[p].email)
     IN  procs' = [procs EXCEPT ![p] =
           IF user.id = 0
             THEN Return(p, UserNotFoundError)
           ELSE IF user.lockedUntil # NoTime /\ now < user.lockedUntil
             THEN [Return(p, Err("Forbidden", "account is locked, please try again later"))
                     EXCEPT !.user = user, !.checkedAt = now]
           ELSE IF ~CompareHashAndPassword(user.password, procs[p].password)
             THEN [procs[p] EXCEPT !.pc = "login_inc", !.user = user, !.checkedAt = now]
           ELSE IF user.loginAttempts > 0
             THEN [procs[p] EXCEPT !.pc = "login_reset", !.user = user, !.checkedAt = now]
           ELSE [procs[p] EXCEPT !.pc = "login_info", !.user = user, !.checkedAt = now]]
  /\ UNCHANGED <<users, tokens, now, jwt, events, ncalls, nticks, rdb, passed>>

\* wrong password: IncrementLoginAttempts returns the counter after the $inc
AuthenticateUserIncrement(p) ==
  /\ procs[p].pc = "login_inc"
  /\ users' = IncrementLoginAttempts(users, procs[p].user.id)
  /\ LET attempts == users'[procs[p].user.id].loginAttempts
     IN  procs' = [procs EXCEPT ![p] =
           IF attempts >= MaxLoginAttempts
             THEN [procs[p] EXCEPT !.pc = "login_lock", !.attempts = attempts]
             ELSE [Return(p, InvalidPasswordError) EXCEPT !.attempts = attempts]]
        /\ events' = IF attempts >= MaxLoginAttempts
                       THEN events ELSE events \cup {LoginFailed(p)}
  /\ UNCHANGED <<tokens, now, jwt, ncalls, nticks, rdb, passed>>

\* attempts >= MaxLoginAttempts: LockUserAccount(LockoutDuration)
AuthenticateUserLock(p) ==
  /\ procs[p].pc = "login_lock"
  /\ users' = LockUserAccount(users, procs[p].user.id, LockoutDuration, now)
  /\ procs' = [procs EXCEPT ![p] = Return(p, InvalidPasswordError)]
  /\ events' = events \cup {LoginFailed(p)}
  /\ UNCHANGED <<tokens, now, jwt, ncalls, nticks, rdb, passed>>

\* right password and user.LoginAttempts > 0 in the copy: ResetLoginAttempts
AuthenticateUserReset(p) ==
  /\ procs[p].pc = "login_reset"
  /\ users' = ResetLoginAttempts(users, procs[p].user.id)
  /\ procs' = [procs EXCEPT ![p].pc = "login_info"]
  /\ UNCHANGED <<tokens, now, jwt, events, ncalls, nticks, rdb, passed>>

\* UpdateLoginInfo(metadata.IPAddress)
AuthenticateUserInfo(p) ==
  /\ procs[p].pc = "login_info"
  /\ users' = UpdateLoginInfo(users, procs[p].user.id, procs[p].meta, now)
  /\ procs' = [procs EXCEPT ![p].pc = "login_save"]
  /\ UNCHANGED <<tokens, now, jwt, events, ncalls, nticks, rdb, passed>>

\* token pair issued and the refresh token persisted
AuthenticateUserSave(p) ==
  /\ procs[p].pc = "login_save"
  /\ IssueTokens(p, "Login", procs[p].user, procs[p].meta)
  /\ UNCHANGED <<users, now, jwt, ncalls, nticks, rdb, passed>>

(* ----------------------- AuthService.OAuthLogin ------------------------ *)
\* ProviderFactory.GetProvider: the configured providers
Providers == {"google", "facebook"}

\* an OAuthLogin request arrives
OAuthLoginStart(p, provider, idToken, meta) ==
  /\ CanStart(p)
  /\ procs' = [procs EXCEPT ![p] =
       [Idle EXCEPT !.pc = "oauth_verify", !.op = "OAuthLogin", !.provider = provider,
                    !.idToken = idToken, !.meta = meta]]
  /\ ncalls' = ncalls + 1
  /\ UNCHANGED <<users, tokens, now, jwt, events, nticks, rdb, passed>>

\* provider.VerifyIDToken: the claims of the external token, or an error when
\* the provider's validation (signature, audience, expiry, network) fails
VerifyIDToken_Trusting(idToken) == [ok |-> TRUE, email |-> idToken.email]

VerifyIDToken(idToken) ==
  IF idToken.valid THEN [ok |-> TRUE, email |-> idToken.email]
                   ELSE [ok |-> FALSE, email |-> ""]

\* GetProvider, provider.VerifyIDToken, GetByEmail(claims.Email)
OAuthLoginVerify(p) ==
  /\ procs[p].pc = "oauth_verify"
  /\ LET claims == VerifyIDToken(procs[p].idToken)
         user   == GetByEmail(users, claims.email)
     IN  procs' = [procs EXCEPT ![p] =
           IF procs[p].provider \notin Providers
             THEN Return(p, Err("Internal", "invalid oauth provider"))
           ELSE IF ~claims.ok
             THEN [Return(p, Err("Unauthorized", "token validation failed"))
                     EXCEPT !.requests = @ + 1]
           ELSE IF user.id = 0
             THEN [procs[p] EXCEPT !.pc = "oauth_create", !.requests = @ + 1,
                     !.user = [NoUser EXCEPT !.email = claims.email, !.userType = "client",
                                             !.isVerified = TRUE, !.isActive = TRUE]]
           ELSE IF user.loginAttempts > 0
             THEN [procs[p] EXCEPT !.pc = "oauth_reset", !.user = user, !.requests = @ + 1]
           ELSE [procs[p] EXCEPT !.pc = "oauth_info", !.user = user, !.requests = @ + 1]]
  /\ UNCHANGED <<users, tokens, now, jwt, events, ncalls, nticks, rdb, passed>>

\* just-in-time provisioning: repo.Create (not retried)
OAuthLoginCreate(p) ==
  /\ procs[p].pc = "oauth_create"
  /\ IF IsUniqueConstraintError(users, procs[p].user)
       THEN /\ procs' = [procs EXCEPT ![p] = Return(p, Err("Database", "failed to create user"))]
            /\ UNCHANGED users
       ELSE /\ users' = Create(users, procs[p].user, now)
            /\ procs' = [procs EXCEPT ![p] =
                  [procs[p] EXCEPT !.pc = "oauth_save", !.user = users'[Len(users')]]]
  /\ UNCHANGED <<tokens, now, jwt, events, ncalls, nticks, rdb, passed>>

\* existing user with LoginAttempts > 0 in the copy: ResetLoginAttempts
OAuthLoginReset(p) ==
  /\ procs[p].pc = "oauth_reset"
  /\ users' = ResetLoginAttempts(users, procs[p].user.id)
  /\ procs' = [procs EXCEPT ![p].pc = "oauth_info"]
  /\ UNCHANGED <<tokens, now, jwt, events, ncalls, nticks, rdb, passed>>

\* existing user: UpdateLoginInfo
OAuthLoginInfo(p) ==
  /\ procs[p].pc = "oauth_info"
  /\ users' = UpdateLoginInfo(users, procs[p].user.id, procs[p].meta, now)
  /\ procs' = [procs EXCEPT ![p].pc = "oauth_save"]
  /\ UNCHANGED <<tokens, now, jwt, events, ncalls, nticks, rdb, passed>>

\* token pair issued; the refresh token is saved without device metadata
OAuthLoginSave(p) ==
  /\ procs[p].pc = "oauth_save"
  /\ IssueTokens(p, "OAuthLogin", procs[p].user, NoMeta)
  /\ UNCHANGED <<users, now, jwt, ncalls, nticks, rdb, passed>>

(* ---------------------- AuthService.RefreshToken ----------------------- *)
\* a RefreshSession request arrives
RefreshTokenStart(p, value, meta) ==
  /\ CanStart(p)
  /\ procs' = [procs EXCEPT ![p] =
       [Idle EXCEPT !.pc = "ref_find", !.op = "Refresh", !.refreshArg = value,
                    !.meta = meta,
                    !.consumedBefore = \E ev \in events :
                                          ev.op = "Refresh" /\ ev.presented = value]]
  /\ ncalls' = ncalls + 1
  /\ UNCHANGED <<users, tokens, now, jwt, events, nticks, rdb, passed>>

\* FindRefreshToken, then the revoked and expiry checks on the copy just read
RefreshTokenFind(p) ==
  /\ procs[p].pc = "ref_find"
  /\ LET storedToken == FindRefreshToken(tokens, procs[p].refreshArg)
     IN  procs' = [procs EXCEPT ![p] =
           IF storedToken.id = 0
             THEN Return(p, Err("Unauthorized", "refresh token not found"))
           ELSE IF storedToken.isRevoked
             THEN [Return(p, Err("Unauthorized", "refresh token has been revoked"))
                     EXCEPT !.stored = storedToken]
           ELSE IF now > storedToken.expiresAt
             THEN [Return(p, Err("Unauthorized", "refresh token has expired"))
                     EXCEPT !.stored = storedToken]
           ELSE [procs[p] EXCEPT !.pc = "ref_revoke", !.stored = storedToken]]
  /\ UNCHANGED <<users, tokens, now, jwt, events, ncalls, nticks, rdb, passed>>

\* RevokeRefreshToken(storedToken.ID), then GetByID(storedToken.UserID)
RefreshTokenRevoke(p) ==
  /\ procs[p].pc = "ref_revoke"
  /\ tokens' = RevokeRefreshToken(tokens, procs[p].stored.id)
  /\ LET user == GetByID(users, procs[p].stored.userId)
     IN  procs' = [procs EXCEPT ![p] =
           IF user.id = 0
             THEN Return(p, Err("NotFound", "user associated with token not found"))
             ELSE [procs[p] EXCEPT !.pc = "ref_save", !.user = user]]
  /\ UNCHANGED <<users, now, jwt, events, ncalls, nticks, rdb, passed>>

\* replacement pair issued and the new refresh token persisted
RefreshTokenSave(p) ==
  /\ procs[p].pc = "ref_save"
  /\ IssueTokens(p, "Refresh", procs[p].user, procs[p].meta)
  /\ UNCHANGED <<users, now, jwt, ncalls, nticks, rdb, passed>>

(* ---------------------- AuthService.ValidateToken ---------------------- *)
\* a ValidateSession request arrives
ValidateTokenStart(p, access) ==
  /\ CanStart(p)
  /\ procs' = [procs EXCEPT ![p] =
       [Idle EXCEPT !.pc = "val_check", !.op = "Validate", !.accessArg = access]]
  /\ ncalls' = ncalls + 1
  /\ UNCHANGED <<users, tokens, now, jwt, events, nticks, rdb, passed>>

\* ValidateAccessToken, then GetByID of the subject; ExpiresAt is read from
\* CustomClaims.ExpiresAt (the shadowing field), not from the "exp" claim
\* a response that repeats the user type captured in the token
ValidateTokenResponse_FromClaims(user, claims) ==
  [NoRes EXCEPT !.kind = "ok", !.userId = user.id, !.userType = claims.user_type,
                !.isActive = user.isActive, !.isVerified = user.isVerified,
                !.expiresAt = Unix(claims.expires_at)]

\* models.ValidateTokenResponse as ValidateToken fills it
ValidateTokenResponse(user, claims) ==
  [NoRes EXCEPT !.kind = "ok", !.userId = user.id, !.userType = user.userType,
                !.isActive = user.isActive, !.isVerified = user.isVerified,
                !.expiresAt = Unix(claims.expires_at)]

ValidateTokenCheck(p) ==
  /\ procs[p].pc = "val_check"
  /\ LET tok  == procs[p].accessArg
         claims == ParseWithClaims(tok)
         user == GetByID(users, claims.user_id)
     IN  procs' = [procs EXCEPT ![p] =
           IF ~ValidateAccessToken(tok, now)
             THEN [Return(p, Err("Unauthorized", "invalid or expired token"))
                     EXCEPT !.checkedAt = now]
           ELSE IF user.id = 0
             THEN [Return(p, Err("Database", "failed to fetch user")) EXCEPT !.checkedAt = now]
           ELSE [Return(p, ValidateTokenResponse(user, claims)) EXCEPT !.checkedAt = now]]
  /\ UNCHANGED <<users, tokens, now, jwt, events, ncalls, nticks, rdb, passed>>

(* --------------------- AuthService.ChangePassword ---------------------- *)
\* a ChangePassword request arrives
ChangePasswordStart(p, userId, old, new) ==
  /\ CanStart(p)
  /\ procs' = [procs EXCEPT ![p] =
       [Idle EXCEPT !.pc = "chg_get", !.op = "ChangePassword", !.userIdArg = userId,
                    !.password = old, !.newPassword = new, !.callNo = ncalls + 1]]
  /\ ncalls' = ncalls + 1
  /\ UNCHANGED <<users, tokens, now, jwt, events, nticks, rdb, passed>>

\* a ChangePassword that counts a wrong old password as a failed login
ChangePasswordGet_Counting(p) ==
  /\ procs[p].pc = "chg_get"
  /\ LET user == GetByID(users, procs[p].userIdArg)
     IN  /\ procs' = [procs EXCEPT ![p] =
              IF user.id = 0
                THEN Return(p, Err("Database", "failed to fetch user"))
              ELSE IF ~CompareHashAndPassword(user.password, procs[p].password)
                THEN Return(p, Err("Unauthorized", "old password is incorrect"))
              ELSE [procs[p] EXCEPT !.pc = "chg_update", !.user = user]]
         /\ users' = IF user.id # 0 /\ ~CompareHashAndPassword(user.password, procs[p].password)
                       THEN IncrementLoginAttempts(users, user.id)
                       ELSE users
  /\ UNCHANGED <<tokens, now, jwt, events, ncalls, nticks, rdb, passed>>

\* GetByID, then the old password is compared with the copy just read
ChangePasswordGet(p) ==
  /\ procs[p].pc = "chg_get"
  /\ LET user == GetByID(users, procs[p].userIdArg)
     IN  procs' = [procs EXCEPT ![p] =
           IF user.id = 0
             THEN Return(p, Err("Database", "failed to fetch user"))
           ELSE IF ~CompareHashAndPassword(user.password, procs[p].password)
             THEN Return(p, Err("Unauthorized", "old password is incorrect"))
           ELSE [procs[p] EXCEPT !.pc = "chg_update", !.user = user]]
  /\ UNCHANGED <<users, tokens, now, jwt, events, ncalls, nticks, rdb, passed>>

\* a password change that also revokes the user's refresh tokens
ChangePasswordUpdate_RevokeAll(p) ==
  /\ procs[p].pc = "chg_update"
  /\ users' = UpdatePassword(users, procs[p].user.id,
                             GenerateFromPassword(procs[p].newPassword))
  /\ tokens' = [i \in DOMAIN tokens |->
                  IF tokens[i].userId = procs[p].user.id
                    THEN [tokens[i] EXCEPT !.isRevoked = TRUE] ELSE tokens[i]]
  /\ procs' = [procs EXCEPT ![p] = Return(p, [NoRes EXCEPT !.kind = "ok",
                                                           !.userId = procs[p].user.id])]
  /\ UNCHANGED <<now, jwt, events, ncalls, nticks, rdb, passed>>

\* UpdatePassword with the digest of the new password
ChangePasswordUpdate(p) ==
  /\ procs[p].pc = "chg_update"
  /\ users' = UpdatePassword(users, procs[p].user.id,
                             GenerateFromPassword(procs[p].newPassword))
  /\ procs' = [procs EXCEPT ![p] = Return(p, [NoRes EXCEPT !.kind = "ok",
                                                           !.userId = procs[p].user.id])]
  /\ UNCHANGED <<tokens, now, jwt, events, ncalls, nticks, rdb, passed>>

(* ------------------------- AuthService.Logout -------------------------- *)
\* a Logout request arrives with req.RefreshToken = str
LogoutStart(p, str) ==
  /\ CanStart(p)
  /\ procs' = [procs EXCEPT ![p] =
       [Idle EXCEPT !.pc = "logout_revoke", !.op = "Logout", !.logoutArg = str,
                    !.revokedBefore =
                       \E i \in DOMAIN tokens :
                          /\ tokens[i].isRevoked
                          /\ str \in {Hex(tokens[i].id), EncodeToString(tokens[i].token)}]]
  /\ ncalls' = ncalls + 1
  /\ UNCHANGED <<users, tokens, now, jwt, events, nticks, rdb, passed>>

\* ObjectIDFromHex(req.RefreshToken), then RevokeRefreshToken of that document id
LogoutRevoke(p) ==
  /\ procs[p].pc = "logout_revoke"
  /\ LET tokenID == ObjectIDFromHex(procs[p].logoutArg)
     IN  IF ~tokenID.ok
           THEN /\ procs' = [procs EXCEPT ![p] =
                               Return(p, Err("Validation", "invalid refresh token id"))]
                /\ UNCHANGED tokens
           ELSE /\ tokens' = RevokeRefreshToken(tokens, tokenID.id)
                /\ procs' = [procs EXCEPT ![p] = Return(p, [NoRes EXCEPT !.kind = "ok"])]
  /\ UNCHANGED <<users, now, jwt, events, ncalls, nticks, rdb, passed>>

(* --------------------------- ErrorHandler ------------------------------ *)
\* a handler is handed the error a constructor of one of the builds made
HandleGrpcErrorStart(p, build, c, msg) ==
  /\ CanStart(p)
  /\ procs' = [procs EXCEPT ![p] =
       [Idle EXCEPT !.pc = "map_error", !.op = "HandleGrpcError",
                    !.err = NewError(build, c, msg)]]
  /\ UNCHANGED <<users, tokens, now, jwt, events, ncalls, nticks, rdb, passed>>

\* HandleGrpcError(err)
HandleGrpcErrorMap(p) ==
  /\ procs[p].pc = "map_error"
  /\ procs' = [procs EXCEPT ![p] =
       [procs[p] EXCEPT !.pc = "done", !.wire = HandleGrpcError(procs[p].err)]]
  /\ UNCHANGED <<users, tokens, now, jwt, events, ncalls, nticks, rdb, passed>>

(* ----------------------------- JWTUtils -------------------------------- *)
\* GenerateAccessToken(userID, email, userType) by a JWTUtils holding key
JWTGenerate(key, userID, email, userType) ==
  /\ jwt' = [NoJWT EXCEPT !.key = key, !.userID = userID, !.email = email,
                          !.userType = userType, !.issuedAt = now,
                          !.token = GenerateAccessTokenWith(key, userID, email, userType, now)]
  /\ UNCHANGED <<users, tokens, now, procs, events, ncalls, nticks, rdb, passed>>

\* ValidateAccessToken(token) by the service's JWTUtils: the claims, or an error
JWTValidate ==
  /\ jwt.token # NoAccess
  /\ ~jwt.validated
  /\ jwt' = [jwt EXCEPT !.validated = TRUE,
                        !.ok = ValidateAccessToken(jwt.token, now),
                        !.claims = IF ValidateAccessToken(jwt.token, now)
                                     THEN ParseWithClaims(jwt.token) ELSE NoClaims,
                        !.at = now]
  /\ UNCHANGED <<users, tokens, now, procs, events, ncalls, nticks, rdb, passed>>

(* ------------------- api-gateway middleware.RequireAuth ---------------- *)
\* an Authorization header is a prefix followed by an encoded access token
\* strings.HasPrefix(authHeader, prefix)
HasPrefix(authHeader, prefix) == authHeader # NoHeader /\ authHeader.prefix = prefix

\* strings.TrimPrefix(authHeader, prefix): the rest; NoAccess is the empty string
TrimPrefix(authHeader, prefix) ==
  IF HasPrefix(authHeader, prefix) THEN authHeader.token ELSE NoAccess

\* the two versions of the middleware package: RequireAuth() of
\* middleware/auth.go and RequireAuth(authClient) of part_008
MiddlewareBuilds == {"auth.go", "part_008"}

\* AuthService.ValidateToken as a function of the token, the store and the time
ValidateToken(tok, us, t) ==
  LET claims == ParseWithClaims(tok)
      user   == GetByID(us, claims.user_id)
  IN  IF ~ValidateAccessToken(tok, t)
        THEN Err("Unauthorized", "invalid or expired token")
      ELSE IF user.id = 0 THEN Err("Database", "failed to fetch user")
      ELSE ValidateTokenResponse(user, claims)

\* a request with an Authorization header reaches the middleware
RequireAuthStart(p, build, authHeader) ==
  /\ CanStart(p)
  /\ procs' = [procs EXCEPT ![p] =
       [Idle EXCEPT !.pc = "mw_header", !.op = "RequireAuth", !.build = build,
                    !.authHeader = authHeader, !.callNo = ncalls + 1]]
  /\ ncalls' = ncalls + 1
  /\ UNCHANGED <<users, tokens, now, jwt, events, nticks, rdb, passed>>

\* the header checks; RequireAuth() of auth.go then calls c.Next() without
\* validating the token ("TODO: Validate JWT token")
RequireAuthHeader(p) ==
  /\ procs[p].pc = "mw_header"
  /\ LET authHeader == procs[p].authHeader
         token      == TrimPrefix(authHeader, "Bearer ")
     IN  procs' = [procs EXCEPT ![p] =
           IF authHeader = NoHeader \/ ~HasPrefix(authHeader, "Bearer ")
             THEN [Return(p, Err("Unauthorized", "Missing or invalid Authorization header"))
                     EXCEPT !.checkedAt = now]
           ELSE IF token = NoAccess
             THEN [Return(p, Err("Unauthorized", "Token is empty")) EXCEPT !.checkedAt = now]
           ELSE IF procs[p].build = "auth.go"
             THEN [Return(p, [NoRes EXCEPT !.kind = "ok"])
                     EXCEPT !.admitted = TRUE, !.accessArg = token, !.checkedAt = now]
           ELSE [procs[p] EXCEPT !.pc = "mw_validate", !.accessArg = token]]
  /\ UNCHANGED <<users, tokens, now, jwt, events, ncalls, nticks, rdb, passed>>

\* authClient.ValidateToken: err != nil || !resp.Valid aborts, otherwise
\* c.Set("user_id", resp.UserId) and c.Next()
RequireAuthValidate(p) ==
  /\ procs[p].pc = "mw_validate"
  /\ LET resp == ValidateToken(procs[p].accessArg, users, now)
     IN  procs' = [procs EXCEPT ![p] =
           IF resp.kind # "ok"
             THEN [Return(p, Err("Unauthorized", "Invalid token")) EXCEPT !.checkedAt = now]
           ELSE [Return(p, [NoRes EXCEPT !.kind = "ok", !.userId = resp.userId])
                   EXCEPT !.admitted = TRUE, !.checkedAt = now]]
  /\ UNCHANGED <<users, tokens, now, jwt, events, ncalls, nticks, rdb, passed>>

\* the gRPC call itself fails (auth service unreachable, deadline)
RequireAuthValidateFault(p) ==
  /\ procs[p].pc = "mw_validate"
  /\ procs' = [procs EXCEPT ![p] =
       [Return(p, Err("Unauthorized", "Invalid token")) EXCEPT !.checkedAt = now]]
  /\ UNCHANGED <<users, tokens, now, jwt, events, ncalls, nticks, rdb, passed>>

(* ------------------- api-gateway middleware.RateLimiter ---------------- *)
\* a key Redis still holds at time t: it exists and its TTL, if any, has not run out
Live(key, t) == key.exists /\ (key.expireAt = NoTime \/ t < key.expireAt)

\* an increment that is lost when the key already exists
Incr_Lost(r, ip, t) ==
  IF Live(r[ip], t) THEN r
  ELSE [r EXCEPT ![ip] = [exists |-> TRUE, count |-> 1, expireAt |-> NoTime,
                          gen |-> r[ip].gen + 1]]

\* rdb.Incr(ctx, "ratelimit:" + ip): atomic; an absent or expired key is
\* created with value 1 and no TTL, an existing key keeps its TTL
Incr(r, ip, t) ==
  IF Live(r[ip], t) THEN [r EXCEPT ![ip].count = @ + 1]
  ELSE [r EXCEPT ![ip] = [exists |-> TRUE, count |-> 1, expireAt |-> NoTime,
                          gen |-> r[ip].gen + 1]]

\* rdb.Expire(ctx, key, window): sets the TTL of an existing key
Expire(r, ip, t, ttl) ==
  IF Live(r[ip], t) THEN [r EXCEPT ![ip].expireAt = t + ttl] ELSE r

\* a request from ip reaches the middleware
RateLimiterStart(p, ip) ==
  /\ CanStart(p)
  /\ procs' = [procs EXCEPT ![p] =
       [Idle EXCEPT !.pc = "rl_incr", !.op = "RateLimiter", !.ip = ip,
                    !.callNo = ncalls + 1]]
  /\ ncalls' = ncalls + 1
  /\ UNCHANGED <<users, tokens, now, jwt, events, nticks, rdb, passed>>

\* if int(count) > limit: NewRateLimitError and c.Abort(); otherwise c.Next()
RateLimiterCheck(p, count, gen, max) ==
  IF count > max
    THEN /\ procs' = [procs EXCEPT ![p] =
               [Return(p, Err("RateLimit", "Too many requests"))
                  EXCEPT !.count = count, !.gen = gen]]
         /\ UNCHANGED passed
    ELSE /\ procs' = [procs EXCEPT ![p] =
               [Return(p, [NoRes EXCEPT !.kind = "ok"])
                  EXCEPT !.count = count, !.gen = gen, !.admitted = TRUE]]
         /\ passed' = passed \cup {<<procs[p].ip, gen, procs[p].callNo>>}

\* rdb.Incr succeeds; with count # 1 the limit check follows at once
RateLimiterIncr(p, max) ==
  /\ procs[p].pc = "rl_incr"
  /\ rdb' = Incr(rdb, procs[p].ip, now)
  /\ LET count == rdb'[procs[p].ip].count
         gen   == rdb'[procs[p].ip].gen
     IN  IF count = 1
           THEN /\ procs' = [procs EXCEPT ![p] =
                      [procs[p] EXCEPT !.pc = "rl_expire", !.count = count, !.gen = gen]]
                /\ UNCHANGED passed
           ELSE RateLimiterCheck(p, count, gen, max)
  /\ UNCHANGED <<users, tokens, now, jwt, events, ncalls, nticks>>

\* rdb.Incr returns an error, whether or not Redis applied the increment:
\* NewInternalError("Rate limiter error") and c.Abort()
RateLimiterIncrFault(p, applied) ==
  /\ procs[p].pc = "rl_incr"
  /\ rdb' = IF applied THEN Incr(rdb, procs[p].ip, now) ELSE rdb
  /\ procs' = [procs EXCEPT ![p] =
       Return(p, Err("Internal", "Rate limiter error"))]
  /\ UNCHANGED <<users, tokens, now, jwt, events, ncalls, nticks, passed>>

\* count == 1: rdb.Expire(ctx, key, window), then the limit check
RateLimiterExpire(p, max, ttl) ==
  /\ procs[p].pc = "rl_expire"
  /\ rdb' = Expire(rdb, procs[p].ip, now, ttl)
  /\ RateLimiterCheck(p, procs[p].count, procs[p].gen, max)
  /\ UNCHANGED <<users, tokens, now, jwt, events, ncalls, nticks>>

\* rdb.Expire fails; its result is discarded and the limit check follows
RateLimiterExpireFault(p, max) ==
  /\ procs[p].pc = "rl_expire"
  /\ RateLimiterCheck(p, procs[p].count, procs[p].gen, max)
  /\ UNCHANGED <<users, tokens, now, jwt, events, ncalls, nticks, rdb>>

(* ------------------------------ clock ---------------------------------- *)
\* time passes
Tick(d) ==
  /\ now' = now + d
  /\ nticks' = nticks + 1
  /\ UNCHANGED <<users, tokens, procs, jwt, events, ncalls, rdb, passed>>

(* --------------------------- specifications ---------------------------- *)
Emails == {"a@x.com", "A@x.com"}

\* the service right after NewServer: empty collections, unique index in place
Init ==
  /\ users = <<>>
  /\ tokens = <<>>
  /\ now = 0
  /\ procs = [p \in Procs |-> Idle]
  /\ jwt = NoJWT
  /\ events = {}
  /\ ncalls = 0
  /\ nticks = 0
  /\ rdb = NoRedis
  /\ passed = {}

\* concurrent Register calls
RegisterCalls == 3

Next ==
  \/ \E p \in Procs, e \in Emails, v \in BOOLEAN :
        ncalls < RegisterCalls /\ CreateUserStart(p, e, "Passw0rd!", "dev1", v)
  \/ \E p \in Procs : CreateUserCheck(p)
  \/ \E p \in Procs : CreateUserCreate(p)
  \/ \E p \in Procs : CreateUserSave(p)

Spec == Init /\ [][Next]_vars

\* the store after one Register("a@x.com", "Passw0rd!") from device dev1 at time 0
RegisteredUser ==
  [NoUser EXCEPT !.email = "a@x.com", !.password = GenerateFromPassword("Passw0rd!"),
                 !.userType = "client"]

RegisteredEvents ==
  {[seq |-> 1, op |-> "Register", by |-> 1, email |-> "a@x.com", userId |-> 1,
    access |-> GenerateAccessToken(1, "a@x.com", "client", 0),
    refresh |-> GenerateRefreshToken(1), presented |-> 0, at |-> 0,
    lockedUntil |-> NoTime]}

InitRegistered ==
  /\ users = Create(<<>>, RegisteredUser, 0)
  /\ tokens = SaveRefreshToken(<<>>, NewRefreshToken(1, GenerateRefreshToken(1), 0, "dev1"))
  /\ now = 0
  /\ procs = [p \in Procs |-> Idle]
  /\ jwt = NoJWT
  /\ events = RegisteredEvents
  /\ ncalls = 0
  /\ nticks = 0
  /\ rdb = NoRedis
  /\ passed = {}

\* two clients of a registered user calling RefreshSession concurrently, while
\* time passes up to and beyond the expiry of a token
Callers == {1, 2}
RefreshCalls == 3
RefreshTicks == 1

\* the refresh token values a client can present: every issued one and an unknown one
Presentable == {tokens[i].token : i \in DOMAIN tokens} \cup {GenerateRefreshToken(0)}

NextRefresh ==
  \/ \E p \in Callers, v \in Presentable :
        ncalls < RefreshCalls /\ RefreshTokenStart(p, v, "dev1")
  \/ \E p \in Callers : RefreshTokenFind(p)
  \/ \E p \in Callers : RefreshTokenRevoke(p)
  \/ \E p \in Callers : RefreshTokenSave(p)
  \/ \E d \in {RefreshTokenTTL, RefreshTokenTTL + 1} : nticks < RefreshTicks /\ Tick(d)

SpecRefresh == InitRegistered /\ [][NextRefresh]_vars

\* one client of a registered user logging in again and again, with the right
\* or a wrong password, while time passes up to and beyond the lockout
LockoutCalls == 6
LockoutTicks == 1
Passwords == {"Passw0rd!", "wrong-pass"}

NextLockout ==
  \/ \E pw \in Passwords :
        ncalls < LockoutCalls /\ AuthenticateUserStart(1, "a@x.com", pw, "dev1")
  \/ AuthenticateUserGet(1)
  \/ AuthenticateUserIncrement(1)
  \/ AuthenticateUserLock(1)
  \/ AuthenticateUserReset(1)
  \/ AuthenticateUserInfo(1)
  \/ AuthenticateUserSave(1)
  \/ \E d \in {LockoutDuration - 1, LockoutDuration} : nticks < LockoutTicks /\ Tick(d)

SpecLockout == InitRegistered /\ [][NextLockout]_vars

\* two clients of a registered user logging in concurrently
LoginCalls == 6

NextLogin ==
  \/ \E p \in Callers, pw \in Passwords :
        ncalls < LoginCalls /\ AuthenticateUserStart(p, "a@x.com", pw, "dev1")
  \/ \E p \in Callers : AuthenticateUserGet(p)
  \/ \E p \in Callers : AuthenticateUserIncrement(p)
  \/ \E p \in Callers : AuthenticateUserLock(p)
  \/ \E p \in Callers : AuthenticateUserReset(p)
  \/ \E p \in Callers : AuthenticateUserInfo(p)
  \/ \E p \in Callers : AuthenticateUserSave(p)

SpecLogin == InitRegistered /\ [][NextLogin]_vars

\* two clients of a registered user logging out and refreshing concurrently;
\* a Logout request carries a refresh token value, or the hex of a document id
LogoutCalls == 3
LogoutStrings ==
  {EncodeToString(v) : v \in Presentable} \cup {Hex(i) : i \in DOMAIN tokens} \cup {Hex(9)}

NextLogout ==
  \/ \E p \in Callers, str \in LogoutStrings : ncalls < LogoutCalls /\ LogoutStart(p, str)
  \/ \E p \in Callers : LogoutRevoke(p)
  \/ \E p \in Callers, v \in Presentable :
        ncalls < LogoutCalls /\ RefreshTokenStart(p, v, "dev1")
  \/ \E p \in Callers : RefreshTokenFind(p)
  \/ \E p \in Callers : RefreshTokenRevoke(p)
  \/ \E p \in Callers : RefreshTokenSave(p)

SpecLogout == InitRegistered /\ [][NextLogout]_vars

\* concurrent Register calls for one email against a store that may fail
RetryCalls == 2

NextRetry ==
  \/ \E p \in Callers :
        ncalls < RetryCalls /\ CreateUserStart(p, "a@x.com", "Passw0rd!", "dev1", TRUE)
  \/ \E p \in Callers : CreateUserCheck(p)
  \/ \E p \in Callers : CreateUserCreate(p)
  \/ \E p \in Callers : CreateUserCreateFault(p)
  \/ \E p \in Callers : CreateUserSave(p)
  \/ \E p \in Callers : CreateUserSaveFault(p)

SpecRetry == Init /\ [][NextRetry]_vars

\* requests whose caller may give up while they are in flight
CancelCalls == 2

NextCancel ==
  \/ \E p \in Callers :
        ncalls < CancelCalls /\ CreateUserStart(p, "a@x.com", "Passw0rd!", "dev1", TRUE)
  \/ \E p \in Callers : CreateUserCheck(p)
  \/ \E p \in Callers : CreateUserCheckCancelled(p)
  \/ \E p \in Callers : CreateUserCreate(p)
  \/ \E p \in Callers : CreateUserCreateFault(p)
  \/ \E p \in Callers : CreateUserSave(p)
  \/ \E p \in Callers : CreateUserSaveCancelled(p)
  \/ \E p \in Callers, v \in BOOLEAN :
        ncalls < CancelCalls /\ FacebookVerifyStart(p, [valid |-> v, email |-> "a@x.com"])
  \/ \E p \in Callers : FacebookDebugToken(p)
  \/ \E p \in Callers : FacebookMe(p)
  \/ \E p \in Callers, seen \in BOOLEAN : Cancel(p, seen)

SpecCancel == Init /\ [][NextCancel]_vars

\* sessions of one user on several devices: the registered user's first device
\* refreshes while other devices log in or sign in through a provider
SessionCalls == 3

NextSessions ==
  \/ \E p \in Callers :
        ncalls < SessionCalls /\ AuthenticateUserStart(p, "a@x.com", "Passw0rd!", "dev2")
  \/ \E p \in Callers : AuthenticateUserGet(p)
  \/ \E p \in Callers : AuthenticateUserInfo(p)
  \/ \E p \in Callers : AuthenticateUserSave(p)
  \/ \E p \in Callers :
        ncalls < SessionCalls
        /\ OAuthLoginStart(p, "google", [valid |-> TRUE, email |-> "a@x.com"], "dev3")
  \/ \E p \in Callers : OAuthLoginVerify(p)
  \/ \E p \in Callers : OAuthLoginInfo(p)
  \/ \E p \in Callers : OAuthLoginSave(p)
  \/ \E p \in Callers :
        ncalls < SessionCalls /\ RefreshTokenStart(p, GenerateRefreshToken(1), "dev1")
  \/ \E p \in Callers : RefreshTokenFind(p)
  \/ \E p \in Callers : RefreshTokenRevoke(p)
  \/ \E p \in Callers : RefreshTokenSave(p)

SpecSessions == InitRegistered /\ [][NextSessions]_vars

\* the request metadata a refresh may arrive with: that of the device the
\* token was issued to, or another
Devices == {"dev1", "dev2"}

RebindCalls == 2

NextRebind ==
  \/ \E p \in Callers, v \in Presentable, m \in Devices :
        ncalls < RebindCalls /\ RefreshTokenStart(p, v, m)
  \/ \E p \in Callers : RefreshTokenFind(p)
  \/ \E p \in Callers : RefreshTokenRevoke(p)
  \/ \E p \in Callers : RefreshTokenSave(p)

SpecRebind == InitRegistered /\ [][NextRebind]_vars

\* concurrent Logins of the registered user, all with a wrong password
CountCalls == 6

NextCount ==
  \/ \E p \in Callers :
        ncalls < CountCalls /\ AuthenticateUserStart(p, "a@x.com", "wrong-pass", "dev1")
  \/ \E p \in Callers : AuthenticateUserGet(p)
  \/ \E p \in Callers : AuthenticateUserIncrement(p)
  \/ \E p \in Callers : AuthenticateUserLock(p)

SpecCount == InitRegistered /\ [][NextCount]_vars

\* the registered user after five failed Logins at time 0: counter at 5, locked
\* until LockoutDuration
LockedEvents ==
  RegisteredEvents \cup
    {[seq |-> n + 1, op |-> "LoginFailed", by |-> 1, email |-> "a@x.com", userId |-> 1,
      access |-> NoAccess, refresh |-> 0, presented |-> 0, at |-> 0,
      lockedUntil |-> NoTime] : n \in 1..MaxLoginAttempts}

InitLocked ==
  /\ users = LockUserAccount([Create(<<>>, RegisteredUser, 0)
                                EXCEPT ![1].loginAttempts = MaxLoginAttempts],
                             1, LockoutDuration, 0)
  /\ tokens = SaveRefreshToken(<<>>, NewRefreshToken(1, GenerateRefreshToken(1), 0, "dev1"))
  /\ now = 0
  /\ procs = [p \in Procs |-> Idle]
  /\ jwt = NoJWT
  /\ events = LockedEvents
  /\ ncalls = 0
  /\ nticks = 0
  /\ rdb = NoRedis
  /\ passed = {}

\* what the locked user's clients can call while the lock is in force
LockedCalls == 3

NextLocked ==
  \/ \E p \in Callers :
        ncalls < LockedCalls /\ AuthenticateUserStart(p, "a@x.com", "Passw0rd!", "dev1")
  \/ \E p \in Callers : AuthenticateUserGet(p)
  \/ \E p \in Callers : AuthenticateUserInfo(p)
  \/ \E p \in Callers : AuthenticateUserSave(p)
  \/ \E p \in Callers :
        ncalls < LockedCalls
        /\ OAuthLoginStart(p, "google", [valid |-> TRUE, email |-> "a@x.com"], "dev1")
  \/ \E p \in Callers : OAuthLoginVerify(p)
  \/ \E p \in Callers : OAuthLoginReset(p)
  \/ \E p \in Callers : OAuthLoginInfo(p)
  \/ \E p \in Callers : OAuthLoginSave(p)
  \/ \E p \in Callers, v \in Presentable :
        ncalls < LockedCalls /\ RefreshTokenStart(p, v, "dev1")
  \/ \E p \in Callers : RefreshTokenFind(p)
  \/ \E p \in Callers : RefreshTokenRevoke(p)
  \/ \E p \in Callers : RefreshTokenSave(p)
  \/ \E p \in Callers :
        ncalls < LockedCalls /\ ChangePasswordStart(p, 1, "Passw0rd!", "N3wPassw0rd!")
  \/ \E p \in Callers : ChangePasswordGet(p)
  \/ \E p \in Callers : ChangePasswordUpdate(p)

SpecLocked == InitLocked /\ [][NextLocked]_vars

\* the transport adapter on its own: errors of every constructor and build
Messages == {"user with this email already exists", "invalid email or password"}

NextErrors ==
  \/ \E p \in Callers, b \in Builds, c \in Constructors, msg \in Messages :
        HandleGrpcErrorStart(p, b, c, msg)
  \/ \E p \in Callers : HandleGrpcErrorMap(p)

SpecErrors == Init /\ [][NextErrors]_vars

\* a client probing for accounts: caller 1 logs in with an email nobody
\* registered, caller 2 with the registered one, one call after the other
EnumerateCalls == 6

NextEnumerate ==
  \/ \E pw \in Passwords :
        /\ ncalls < EnumerateCalls /\ CanStart(2)
        /\ AuthenticateUserStart(1, "nobody@x.com", pw, "dev1")
  \/ \E pw \in Passwords :
        /\ ncalls < EnumerateCalls /\ CanStart(1)
        /\ AuthenticateUserStart(2, "a@x.com", pw, "dev1")
  \/ \E p \in Callers : AuthenticateUserGet(p)
  \/ \E p \in Callers : AuthenticateUserIncrement(p)
  \/ \E p \in Callers : AuthenticateUserLock(p)
  \/ \E p \in Callers : AuthenticateUserReset(p)
  \/ \E p \in Callers : AuthenticateUserInfo(p)
  \/ \E p \in Callers : AuthenticateUserSave(p)

SpecEnumerate == InitRegistered /\ [][NextEnumerate]_vars

\* one client registering and presenting the access tokens it was given to
\* ValidateSession while time passes up to and beyond their expiry
ValidateCalls == 3
ValidateTicks == 4
Issued == {ev.access : ev \in events}

NextValidate ==
  \/ \E e \in Emails :
        ncalls < ValidateCalls /\ CreateUserStart(1, e, "Passw0rd!", "dev1", TRUE)
  \/ CreateUserCheck(1)
  \/ CreateUserCreate(1)
  \/ CreateUserSave(1)
  \/ \E tok \in Issued : ncalls < ValidateCalls /\ ValidateTokenStart(1, tok)
  \/ ValidateTokenCheck(1)
  \/ nticks < ValidateTicks /\ Tick(1)

SpecValidate == Init /\ [][NextValidate]_vars

\* a registered user changing the password (caller 2) and logging in (caller 1),
\* one call after the other
PasswordCalls == 5
NewPasswords == {"Passw0rd!", "N3wPassw0rd!"}

NextPassword ==
  \/ \E old \in NewPasswords, new \in NewPasswords :
        ncalls < PasswordCalls /\ CanStart(1) /\ ChangePasswordStart(2, 1, old, new)
  \/ ChangePasswordGet(2)
  \/ ChangePasswordUpdate(2)
  \/ \E pw \in NewPasswords :
        ncalls < PasswordCalls /\ CanStart(2) /\ AuthenticateUserStart(1, "a@x.com", pw, "dev1")
  \/ AuthenticateUserGet(1)
  \/ AuthenticateUserIncrement(1)
  \/ AuthenticateUserLock(1)
  \/ AuthenticateUserReset(1)
  \/ AuthenticateUserInfo(1)
  \/ AuthenticateUserSave(1)

SpecPassword == InitRegistered /\ [][NextPassword]_vars

\* the store after Register("a@x.com", "Passw0rd!") and one Login with a wrong
\* password, both from caller 1 at time 0
FailedOnceEvents ==
  RegisteredEvents \cup
    {[seq |-> 2, op |-> "LoginFailed", by |-> 1, email |-> "a@x.com", userId |-> 1,
      access |-> NoAccess, refresh |-> 0, presented |-> 0, at |-> 0,
      lockedUntil |-> NoTime]}

InitFailedOnce ==
  /\ users = IncrementLoginAttempts(Create(<<>>, RegisteredUser, 0), 1)
  /\ tokens = SaveRefreshToken(<<>>, NewRefreshToken(1, GenerateRefreshToken(1), 0, "dev1"))
  /\ now = 0
  /\ procs = [p \in Procs |-> Idle]
  /\ jwt = NoJWT
  /\ events = FailedOnceEvents
  /\ ncalls = 0
  /\ nticks = 0
  /\ rdb = NoRedis
  /\ passed = {}

\* two clients signing in through an identity provider concurrently, for the
\* registered email and for one the store has never seen
OAuthCalls == 3
IDTokens == {[valid |-> v, email |-> e] : v \in BOOLEAN, e \in Emails}

NextOAuth ==
  \/ \E p \in Callers, pr \in Providers \cup {"github"}, t \in IDTokens :
        ncalls < OAuthCalls /\ OAuthLoginStart(p, pr, t, "dev1")
  \/ \E p \in Callers : OAuthLoginVerify(p)
  \/ \E p \in Callers : OAuthLoginCreate(p)
  \/ \E p \in Callers : OAuthLoginReset(p)
  \/ \E p \in Callers : OAuthLoginInfo(p)
  \/ \E p \in Callers : OAuthLoginSave(p)

SpecOAuth == InitFailedOnce /\ [][NextOAuth]_vars

\* JWTUtils on its own: tokens for any subject, signed with the service's key
\* or with another one, validated before and after their expiry
JWTTicks == 4
Keys == {SecretKey, "otherKey"}
UserIDs == {1, 2}
UserTypes == {"client", "master"}

NextJWT ==
  \/ \E k \in Keys, id \in UserIDs, e \in Emails, ut \in UserTypes : JWTGenerate(k, id, e, ut)
  \/ JWTValidate
  \/ nticks < JWTTicks /\ Tick(1)

SpecJWT == Init /\ [][NextJWT]_vars

\* ValidateToken over what the store may hold when a token is presented: the
\* token's user with any type and flags, or no such user
StoredUsers ==
  {<<>>} \cup
  {<<[BeforeCreate(RegisteredUser, 1, 0)
        EXCEPT !.userType = ut, !.isActive = a, !.isVerified = v]>> :
     ut \in UserTypes, a \in BOOLEAN, v \in BOOLEAN}

InitReport ==
  /\ users \in StoredUsers
  /\ tokens = <<>>
  /\ now = 0
  /\ procs = [p \in Procs |-> Idle]
  /\ jwt = NoJWT
  /\ events = {}
  /\ ncalls = 0
  /\ nticks = 0
  /\ rdb = NoRedis
  /\ passed = {}

ReportCalls == 2
ReportTicks == 4

NextReport ==
  \/ \E ut \in UserTypes :
        ncalls < ReportCalls
        /\ ValidateTokenStart(1, GenerateAccessToken(1, "a@x.com", ut, 0))
  \/ ValidateTokenCheck(1)
  \/ nticks < ReportTicks /\ Tick(1)

SpecReport == InitReport /\ [][NextReport]_vars

\* a client of the registered user changes the password while another
\* exchanges refresh tokens
KeepCalls == 3

NextKeep ==
  \/ \E old \in NewPasswords, new \in NewPasswords :
        ncalls < KeepCalls /\ ChangePasswordStart(2, 1, old, new)
  \/ ChangePasswordGet(2)
  \/ ChangePasswordUpdate(2)
  \/ \E v \in Presentable : ncalls < KeepCalls /\ RefreshTokenStart(1, v, "dev1")
  \/ RefreshTokenFind(1)
  \/ RefreshTokenRevoke(1)
  \/ RefreshTokenSave(1)

SpecKeep == InitRegistered /\ [][NextKeep]_vars

\* Register requests of every kind the validation distinguishes; the texts with
\* two bytes to the character stand for names and passwords in Cyrillic
RequestPasswords ==
  {Text("Passw0rd!", 9, 9, FALSE), Text("short", 5, 5, FALSE),
   Text("parol (Cyrillic)", 6, 12, FALSE)}
RequestNames ==
  {Text("Al", 2, 2, FALSE), Text("", 0, 0, TRUE), Text("A", 1, 1, FALSE),
   Text("  ", 2, 2, TRUE), Text("Ya (Cyrillic)", 1, 2, FALSE),
   Text("a name of 51 letters", 51, 51, FALSE)}
Requests ==
  {[email |-> e, password |-> pw, firstName |-> fn, lastName |-> ln, userType |-> ut] :
     e \in {"a@x.com", "not-an-email"}, pw \in RequestPasswords,
     fn \in RequestNames, ln \in {Text("Lee", 3, 3, FALSE), Text("L", 1, 1, FALSE)},
     ut \in {"client", "master", "admin"}}

ValidationCalls == 2

NextValidation ==
  \/ \E req \in Requests : ncalls < ValidationCalls /\ RegistrationStart(1, req, "dev1")
  \/ CreateUserCheck(1)
  \/ CreateUserCreate(1)
  \/ CreateUserSave(1)

SpecValidation == Init /\ [][NextValidation]_vars

\* every operation that issues a token bundle, called concurrently from an
\* empty store
IssueCalls == 4

NextIssue ==
  \/ \E p \in Callers :
        ncalls < IssueCalls /\ CreateUserStart(p, "a@x.com", "Passw0rd!", "dev1", TRUE)
  \/ \E p \in Callers : CreateUserCheck(p)
  \/ \E p \in Callers : CreateUserCreate(p)
  \/ \E p \in Callers : CreateUserSave(p)
  \/ \E p \in Callers :
        ncalls < IssueCalls /\ AuthenticateUserStart(p, "a@x.com", "Passw0rd!", "dev2")
  \/ \E p \in Callers : AuthenticateUserGet(p)
  \/ \E p \in Callers : AuthenticateUserInfo(p)
  \/ \E p \in Callers : AuthenticateUserSave(p)
  \/ \E p \in Callers :
        ncalls < IssueCalls
        /\ OAuthLoginStart(p, "google", [valid |-> TRUE, email |-> "a@x.com"], "dev3")
  \/ \E p \in Callers : OAuthLoginVerify(p)
  \/ \E p \in Callers : OAuthLoginCreate(p)
  \/ \E p \in Callers : OAuthLoginInfo(p)
  \/ \E p \in Callers : OAuthLoginSave(p)
  \/ \E p \in Callers, v \in Presentable :
        ncalls < IssueCalls /\ RefreshTokenStart(p, v, "dev1")
  \/ \E p \in Callers : RefreshTokenFind(p)
  \/ \E p \in Callers : RefreshTokenRevoke(p)
  \/ \E p \in Callers : RefreshTokenSave(p)

SpecIssue == Init /\ [][NextIssue]_vars

\* requests to a route guarded by RequireAuth, in either version of the
\* middleware: no header, another scheme, an empty token, the token the
\* registered user was issued (before and after its expiry) and one signed
\* with a key that is not the service's
GatewayCalls == 3
GatewayTicks == 3
PresentedTokens ==
  Issued \cup {GenerateAccessTokenWith("otherKey", 1, "a@x.com", "client", 0)}
AuthHeaders ==
  {NoHeader} \cup
  {[prefix |-> pf, token |-> t] :
      pf \in {"Bearer ", "Basic "}, t \in PresentedTokens \cup {NoAccess}}

NextGateway ==
  \/ \E b \in MiddlewareBuilds, h \in AuthHeaders :
        ncalls < GatewayCalls /\ RequireAuthStart(1, b, h)
  \/ RequireAuthHeader(1)
  \/ RequireAuthValidate(1)
  \/ RequireAuthValidateFault(1)
  \/ nticks < GatewayTicks /\ Tick(1)

SpecGateway == InitRegistered /\ [][NextGateway]_vars

\* concurrent requests from two addresses through
\* RateLimiter(rdb, limit, window), while time passes beyond the window
limit == 2
window == 2
RateCalls == 3
RateTicks == 2

NextRateLimit ==
  \/ \E p \in Callers, ip \in IPs : ncalls < RateCalls /\ RateLimiterStart(p, ip)
  \/ \E p \in Callers : RateLimiterIncr(p, limit)
  \/ \E p \in Callers, applied \in BOOLEAN : RateLimiterIncrFault(p, applied)
  \/ \E p \in Callers : RateLimiterExpire(p, limit, window)
  \/ \E p \in Callers : RateLimiterExpireFault(p, limit)
  \/ nticks < RateTicks /\ Tick(1)

SpecRateLimit == Init /\ [][NextRateLimit]_vars

(* ------------------------------ claims --------------------------------- *)
Quiescent == \A p \in Procs : procs[p].pc \in {"idle", "done"}

Done(p, op) == procs[p].pc = "done" /\ procs[p].op = op

RegisterDone(p, e) == Done(p, "Register") /\ procs[p].email = e /\ procs[p].valid

RegisterSuccesses(e) == {ev \in events : ev.op = "Register" /\ ev.email = e}

\* C1: under any interleaving of concurrent Register calls with one email the
\* store holds at most one user with that email, at most one call gets a token
\* bundle, every other (well-formed) call gets Conflict, and once the calls have
\* all returned exactly one of them has succeeded.
C1_RegisterExactlyOne ==
  \A e \in Emails :
    /\ Cardinality({i \in DOMAIN users : users[i].email = e}) <= 1
    /\ Cardinality(RegisterSuccesses(e)) <= 1
    /\ \A p \in Procs : RegisterDone(p, e) => procs[p].res.kind \in {"ok", "Conflict"}
    /\ (Quiescent /\ \E p \in Procs : RegisterDone(p, e))
          => Cardinality(RegisterSuccesses(e)) = 1

\* two calls raced past the existence check; one inserted, the other lost at Create
C1_Witness ==
  \E e \in Emails : \E p, q \in Procs :
    /\ p # q /\ RegisterDone(p, e) /\ RegisterDone(q, e)
    /\ procs[p].res.kind = "ok"
    /\ procs[q].res.kind = "Conflict" /\ procs[q].tries = MaxRetries


\* the state InitRegistered starts from is the one a single Register call leaves
RegisteredReached ==
  /\ users = Create(<<>>, RegisteredUser, 0)
  /\ tokens = SaveRefreshToken(<<>>, NewRefreshToken(1, GenerateRefreshToken(1), 0, "dev1"))
  /\ events = RegisteredEvents
  /\ now = 0

\* C2: a RefreshSession call that starts after a RefreshSession with the same
\* token value has succeeded never gets past the lookup: it returns Unauthorized
\* "refresh token has been revoked" (also after the token's expiry time) and
\* issues no token.
C2_ConsumedTokenRejected ==
  \A p \in Procs :
    (procs[p].op = "Refresh" /\ procs[p].consumedBefore) =>
       /\ procs[p].pc \in {"ref_find", "done"}
       /\ procs[p].pc = "done" =>
            /\ procs[p].res.kind = "Unauthorized"
            /\ procs[p].res.msg = "refresh token has been revoked"

\* a consumed token was presented again after its expiry time and was rejected
C2_Witness ==
  \E p \in Procs :
    /\ Done(p, "Refresh") /\ procs[p].consumedBefore
    /\ procs[p].stored.id # 0 /\ now > procs[p].stored.expiresAt
    /\ procs[p].res.msg = "refresh token has been revoked"

\* C3: of the RefreshSession calls presenting one token value at most one
\* succeeds, so at most one replacement token is persisted for it.
C3_AtMostOneRotation ==
  \A i \in DOMAIN tokens :
    Cardinality({ev \in events : ev.op = "Refresh" /\ ev.presented = tokens[i].token}) <= 1


\* C4: a Login that follows five or more consecutive failed Logins of the user
\* (no successful authentication in between, counter starting at 0) and is
\* evaluated before the lockout of the last failure has elapsed returns
\* Forbidden, whatever password it supplies.
C4_LockedAfterFiveFailures ==
  \A p \in Procs :
    (/\ Done(p, "Login")
     /\ procs[p].streak >= MaxLoginAttempts
     /\ procs[p].checkedAt < procs[p].lastFailedAt + LockoutDuration)
    => procs[p].res.kind = "Forbidden"

\* the sixth Login carried the right password, one tick before the lock ran out
C4_Witness ==
  \E p \in Procs :
    /\ Done(p, "Login") /\ procs[p].streak = MaxLoginAttempts
    /\ procs[p].password = "Passw0rd!"
    /\ procs[p].checkedAt = procs[p].lastFailedAt + LockoutDuration - 1
    /\ procs[p].res.kind = "Forbidden"

\* C5: a Login with the right password that is evaluated once the lockout of a
\* locked account has elapsed returns a token bundle and leaves the stored
\* login-attempt counter at 0.
C5_LoginAfterLockElapsed ==
  \A p \in Procs :
    (/\ Done(p, "Login")
     /\ procs[p].streak >= MaxLoginAttempts
     /\ procs[p].checkedAt >= procs[p].lastFailedAt + LockoutDuration
     /\ CompareHashAndPassword(procs[p].user.password, procs[p].password))
    => /\ procs[p].res.kind = "ok"
       /\ procs[p].res.refresh # 0
       /\ GetByID(users, procs[p].user.id).loginAttempts = 0

\* the account was locked, the lock ran out, and the right password got a bundle
C5_Witness ==
  \E p \in Procs :
    /\ Done(p, "Login") /\ procs[p].streak = MaxLoginAttempts
    /\ procs[p].user.lockedUntil # NoTime
    /\ procs[p].checkedAt = procs[p].user.lockedUntil
    /\ procs[p].res.kind = "ok"
    /\ GetByID(users, procs[p].user.id).loginAttempts = 0

\* C6: no Login returns a token bundle at a moment when the stored locked-until
\* timestamp of the user is in the future.
C6_NoBundleWhileLocked ==
  \A ev \in events :
    ev.op = "Login" => ~(ev.lockedUntil # NoTime /\ ev.at < ev.lockedUntil)


\* C9: ValidateAccessToken applied before expiry to what GenerateAccessToken
\* made from a subject id, an email and a user type succeeds and returns claims
\* with exactly that subject id, email and user type; a token signed with
\* another secret is rejected.
C9_RoundTrip ==
  jwt.validated =>
    /\ (jwt.key = SecretKey /\ jwt.at < NewNumericDate(jwt.issuedAt + AccessTokenTTL))
          => /\ jwt.ok
             /\ jwt.claims.user_id = jwt.userID
             /\ jwt.claims.email = jwt.email
             /\ jwt.claims.user_type = jwt.userType
    /\ jwt.key # SecretKey => ~jwt.ok

\* a token for a master was validated some time after it was made, before expiry
C9_Witness ==
  /\ jwt.validated /\ jwt.key = SecretKey /\ jwt.ok
  /\ jwt.issuedAt < jwt.at
  /\ jwt.claims.user_id = 2 /\ jwt.claims.email = "A@x.com"
  /\ jwt.claims.user_type = "master"

\* a token signed with another secret was presented and turned down
C9_OtherSecretRejected == jwt.validated /\ jwt.key # SecretKey /\ ~jwt.ok


\* the state InitFailedOnce starts from is the one a Register and a failed
\* Login leave
FailedOnceReached ==
  /\ users = IncrementLoginAttempts(Create(<<>>, RegisteredUser, 0), 1)
  /\ tokens = SaveRefreshToken(<<>>, NewRefreshToken(1, GenerateRefreshToken(1), 0, "dev1"))
  /\ events = FailedOnceEvents
  /\ now = 0

\* C7 as stated: for an access token issued to an existing user, with expiresAt
\* the issue time plus the access TTL, ValidateSession answers valid at every
\* time strictly before expiresAt and Unauthorized at every time at or after it.
C7_ValidUntilIssuePlusTTL ==
  \A p \in Procs : \A ev \in events :
    (Done(p, "Validate") /\ ev.access = procs[p].accessArg /\ GetByID(users, ev.userId).id # 0)
    => LET expiresAt == ev.at + AccessTokenTTL
       IN  /\ procs[p].checkedAt < expiresAt
                => /\ procs[p].res.kind = "ok"
                   /\ procs[p].res.userId = ev.userId
           /\ procs[p].checkedAt >= expiresAt => procs[p].res.kind = "Unauthorized"

\* C7 (amended): for an access token issued to an existing user, with expiresAt
\* the issue time plus the access TTL truncated down to a whole second (the
\* "exp" the token carries), ValidateSession answers valid at every time
\* strictly before expiresAt and Unauthorized at every time at or after it.
C7_ValidUntilExpiry ==
  \A p \in Procs : \A ev \in events :
    (Done(p, "Validate") /\ ev.access = procs[p].accessArg /\ GetByID(users, ev.userId).id # 0)
    => LET expiresAt == NewNumericDate(ev.at + AccessTokenTTL)
       IN  /\ procs[p].checkedAt < expiresAt
                => /\ procs[p].res.kind = "ok"
                   /\ procs[p].res.userId = ev.userId
           /\ procs[p].checkedAt >= expiresAt => procs[p].res.kind = "Unauthorized"

\* a token whose issue time plus TTL is not a whole second was turned down at
\* the whole second before it
C7_Witness ==
  \E p \in Procs : \E ev \in events :
    /\ Done(p, "Validate") /\ ev.access = procs[p].accessArg
    /\ NewNumericDate(ev.at + AccessTokenTTL) < ev.at + AccessTokenTTL
    /\ procs[p].checkedAt = NewNumericDate(ev.at + AccessTokenTTL)
    /\ procs[p].res.kind = "Unauthorized"

\* the last tick before the expiry still validates
C7_ValidJustBefore ==
  \E p \in Procs : \E ev \in events :
    /\ Done(p, "Validate") /\ ev.access = procs[p].accessArg
    /\ procs[p].checkedAt = NewNumericDate(ev.at + AccessTokenTTL) - 1
    /\ procs[p].res.kind = "ok"

\* the Login was evaluated while the copy of the user it read was locked
LockedAtCheck(p) ==
  /\ procs[p].user.lockedUntil # NoTime
  /\ procs[p].checkedAt < procs[p].user.lockedUntil

\* C8: once ChangePassword(userId, old, new) with old # new has succeeded, a
\* later Login of that user (not locked) with old returns Unauthorized and one
\* with new returns a token bundle.
C8_PasswordChanged ==
  \A p, q \in Procs :
    (/\ Done(q, "ChangePassword") /\ procs[q].res.kind = "ok"
     /\ procs[q].password # procs[q].newPassword
     /\ Done(p, "Login") /\ procs[p].callNo > procs[q].callNo
     /\ GetByEmail(users, procs[p].email).id = procs[q].userIdArg
     /\ ~LockedAtCheck(p))
    => /\ procs[p].password = procs[q].password => procs[p].res.kind = "Unauthorized"
       /\ procs[p].password = procs[q].newPassword
            => procs[p].res.kind = "ok" /\ procs[p].res.refresh # 0

\* after the change a Login with the old password failed and the next one, with
\* the new password, got a bundle
C8_Witness ==
  \E p, q \in Procs :
    /\ Done(q, "ChangePassword") /\ procs[q].res.kind = "ok"
    /\ procs[q].password = "Passw0rd!" /\ procs[q].newPassword = "N3wPassw0rd!"
    /\ Done(p, "Login") /\ procs[p].callNo = procs[q].callNo + 2
    /\ procs[p].streak = 1 /\ procs[p].lastFailedAt # NoTime
    /\ procs[p].password = procs[q].newPassword
    /\ procs[p].res.kind = "ok"

\* C10: an OAuthLogin with a provider token that verifies, for an email without
\* a local user, persists a user whose verified and active flags are both true
\* and returns a token bundle whose refresh token is persisted.
C10_JITUserVerifiedActive ==
  \A p \in Procs :
    (/\ Done(p, "OAuthLogin") /\ procs[p].res.kind = "ok"
     /\ procs[p].idToken.email = "A@x.com")
    => LET user == GetByEmail(users, "A@x.com")
       IN  /\ user.id # 0 /\ procs[p].res.userId = user.id
           /\ user.isVerified /\ user.isActive
           /\ FindRefreshToken(tokens, procs[p].res.refresh).userId = user.id


\* C11: a Login for an email without a user record and a Login of an existing,
\* unlocked user with a wrong password return the same error kind,
\* Unauthorized, with the same message text.
C11_SameAnswer ==
  \A p, q \in Procs :
    (/\ Done(p, "Login") /\ GetByEmail(users, procs[p].email).id = 0
     /\ Done(q, "Login") /\ GetByEmail(users, procs[q].email).id # 0
     /\ ~CompareHashAndPassword(GetByEmail(users, procs[q].email).password, procs[q].password)
     /\ ~LockedAtCheck(q))
    => /\ procs[p].res.kind = "Unauthorized"
       /\ procs[q].res.kind = "Unauthorized"
       /\ procs[p].res = procs[q].res

\* both probes were answered: an unknown email and a wrong password
C11_Witness ==
  \E p, q \in Procs :
    /\ Done(p, "Login") /\ procs[p].email = "nobody@x.com"
    /\ Done(q, "Login") /\ procs[q].email = "a@x.com" /\ procs[q].password = "wrong-pass"
    /\ procs[q].attempts = 1
    /\ procs[p].res.msg = procs[q].res.msg /\ procs[p].res.kind = "Unauthorized"


\* the stored refresh tokens with value v
Valued(v) == {i \in DOMAIN tokens : tokens[i].token = v}

\* C12: a Logout called with a refresh token value that a successful Register,
\* Login, OAuthLogin or RefreshSession returned returns ok and revokes that
\* token (so that every later RefreshSession with the value is Unauthorized).
C12_LogoutRevokesValue ==
  \A p \in Procs : \A ev \in events :
    (/\ Done(p, "Logout") /\ ev.refresh # 0
     /\ procs[p].logoutArg = EncodeToString(ev.refresh))
    => /\ procs[p].res.kind = "ok"
       /\ \A i \in Valued(ev.refresh) : tokens[i].isRevoked

\* the token the request names, by document id, is stored and already revoked
NamedRevoked(p) ==
  /\ ObjectIDFromHex(procs[p].logoutArg).ok
  /\ \E i \in DOMAIN tokens :
       tokens[i].id = ObjectIDFromHex(procs[p].logoutArg).id /\ tokens[i].isRevoked

Delivered(build, res) == HandleGrpcToHttp(HandleGrpcError(ErrorOf(build, res)))

\* C14: a Register for an email that already has a user record returns
\* Conflict, the code delivered to the caller is "CONFLICT_ERROR", and no second
\* user record is created.
C14_ConflictCodeDelivered ==
  \A p \in Procs : \A b \in Builds :
    (Done(p, "Register") /\ procs[p].valid /\ procs[p].existedBefore)
    => /\ procs[p].res.kind = "Conflict"
       /\ Cardinality({i \in DOMAIN users : users[i].email = procs[p].email}) = 1
       /\ Delivered(b, procs[p].res).code = "CONFLICT_ERROR"

\* the transport status the claim gives for each error kind
ClaimedCode(type) ==
  CASE type = "Validation" -> "InvalidArgument"
    [] type = "Conflict" -> "AlreadyExists"
    [] type = "Unauthorized" -> "Unauthenticated"
    [] type = "Forbidden" -> "PermissionDenied"
    [] type = "NotFound" -> "NotFound"
    [] type = "Database" -> "Internal"
    [] type = "Internal" -> "Internal"

\* C15: HandleGrpcError maps every error made by a constructor of kind
\* Validation, Conflict, Unauthorized, Forbidden, NotFound, Database or Internal
\* to InvalidArgument, AlreadyExists, Unauthenticated, PermissionDenied,
\* NotFound, Internal and Internal, with the error's own message, never to the
\* fallback for untyped errors.
C15_MappingTotal ==
  \A p \in Procs :
    (/\ Done(p, "HandleGrpcError")
     /\ procs[p].err.type \in {"Validation", "Conflict", "Unauthorized", "Forbidden",
                               "NotFound", "Database", "Internal"})
    => /\ procs[p].wire.code = ClaimedCode(procs[p].err.type)
       /\ procs[p].wire.message = procs[p].err.message


\* C16: during one Register call Create is attempted at most 3 times in all,
\* whatever transient store faults occur.
C16_AtMostThreeCreates ==
  \A p \in Procs : procs[p].op = "Register" => procs[p].creates <= 3

\* C17: when a Create attempt inside Register fails with a uniqueness Conflict,
\* Register makes no further Create attempt: Create is invoked exactly once for
\* that call and the Conflict is returned.
C17_ConflictNotRetried ==
  \A p \in Procs :
    (procs[p].op = "Register" /\ procs[p].conflicts > 0)
    => /\ procs[p].creates = 1
       /\ procs[p].pc = "done" => procs[p].res.kind = "Conflict"


\* C18: after the caller of a request has given up, no further store or
\* OAuth-provider call is started for that request: the number of Create
\* attempts and provider requests stays what it was at cancellation.
C18_NoCallAfterCancel ==
  \A p \in Procs :
    procs[p].gaveUp => procs[p].creates + procs[p].requests = procs[p].callsAtCancel


\* case normalization of the emails of the model (strings.ToLower)
ToLower(email) == IF email = "A@x.com" THEN "a@x.com" ELSE email

\* C19: user emails are unique after case normalization: no two user records
\* have emails that differ only in letter case, and a Register with such an
\* email, made after the first has succeeded, returns Conflict.
C19_UniqueAfterNormalization ==
  /\ \A i, j \in 1..Len(users) :
       ToLower(users[i].email) = ToLower(users[j].email) => i = j
  /\ \A p \in Procs :
       (/\ Done(p, "Register")
        /\ procs[p].valid
        /\ \E i \in 1..Len(users) :
             /\ users[i].id # procs[p].res.userId
             /\ ToLower(users[i].email) = ToLower(procs[p].email))
       => procs[p].res.kind = "Conflict"


\* C20: sessions on different devices are independent: a step of Login,
\* Register, OAuthLogin or RefreshSession leaves every stored refresh token
\* unchanged, except the one token a RefreshSession presented and consumes, so
\* a token issued earlier to another device stays active and refreshable.
C20_OtherSessionsUnchanged ==
  [][\A i \in DOMAIN tokens :
       /\ i \in DOMAIN tokens'
       /\ tokens'[i] # tokens[i]
            => \E p \in Procs : /\ procs[p].pc = "ref_revoke"
                                /\ procs'[p].pc # "ref_revoke"
                                /\ procs[p].stored.id = i
                                /\ tokens'[i] = [tokens[i] EXCEPT !.isRevoked = TRUE]]_vars

\* the first device's token is refreshed after another device has logged in
C20_Witness ==
  \E e1, e2 \in events :
    /\ e1.op = "Login" /\ e1.userId = 1
    /\ e2.op = "Refresh" /\ e2.presented = GenerateRefreshToken(1)
    /\ e2.seq > e1.seq
    /\ Cardinality({i \in DOMAIN tokens : tokens[i].userId = 1}) >= 3


\* C21: when the provider's verification of the external token fails,
\* OAuthLogin returns Unauthorized and the step leaves users and refresh tokens
\* as they were; an unknown provider name returns Internal with no
\* verification and no store access.  The step is the first of the call.
C21_FailedVerificationTouchesNothing ==
  [][\A p \in Procs :
       (procs[p].pc = "oauth_verify" /\ procs'[p].pc # "oauth_verify")
       => /\ procs[p].provider \notin Providers
               => /\ procs'[p].pc = "done" /\ procs'[p].res.kind = "Internal"
                  /\ procs'[p].requests = 0
                  /\ users' = users /\ tokens' = tokens
          /\ (procs[p].provider \in Providers /\ ~procs[p].idToken.valid)
               => /\ procs'[p].pc = "done" /\ procs'[p].res.kind = "Unauthorized"
                  /\ users' = users /\ tokens' = tokens]_vars

\* a call with a token the provider rejects has returned Unauthorized, another
\* with an unknown provider has returned Internal
C21_Witness ==
  /\ \E p \in Procs : /\ Done(p, "OAuthLogin") /\ procs[p].provider \in Providers
                      /\ ~procs[p].idToken.valid /\ procs[p].requests = 1
                      /\ procs[p].res.kind = "Unauthorized"
  /\ \E p \in Procs : /\ Done(p, "OAuthLogin") /\ procs[p].provider \notin Providers
                      /\ procs[p].res.kind = "Internal"
  /\ Len(users) = 1 /\ Len(tokens) = 1


\* C22: in every RefreshSession the presented token is revoked in the store
\* before the replacement is persisted: a call about to persist a replacement
\* has its presented token revoked, and no replacement issued by a rotation
\* exists while the token it replaced is unrevoked.
C22_RevokedBeforeReplacement ==
  /\ \A p \in Procs :
       procs[p].pc = "ref_save" => FindRefreshToken(tokens, procs[p].refreshArg).isRevoked
  /\ \A ev \in events :
       ev.op = "Refresh" =>
         /\ FindRefreshToken(tokens, ev.presented).isRevoked
         /\ FindRefreshToken(tokens, ev.refresh).id # 0

\* a rotation has completed: the replacement is stored and unrevoked, the
\* presented token is revoked
C22_Witness ==
  \E ev \in events :
    /\ ev.op = "Refresh" /\ ev.presented = GenerateRefreshToken(1)
    /\ FindRefreshToken(tokens, ev.presented).isRevoked
    /\ ~FindRefreshToken(tokens, ev.refresh).isRevoked


\* C23: the replacement refresh token persisted by a successful RefreshSession
\* carries the device metadata and the owning user id of the presented token.
C23_ReplacementKeepsMetadata ==
  \A ev \in events :
    ev.op = "Refresh" =>
      LET old == FindRefreshToken(tokens, ev.presented)
          new == FindRefreshToken(tokens, ev.refresh)
      IN  new.meta = old.meta /\ new.userId = old.userId


\* C24: a RefreshSession whose token is unknown, already revoked or past its
\* expiry returns Unauthorized at the lookup and changes no store state; tokens
\* are never deleted, an expired one stays stored and is rejected by comparing
\* its expiry with the time of the lookup.
C24_RejectedRefreshChangesNothing ==
  [][/\ \A p \in Procs :
          (procs[p].pc = "ref_find" /\ procs'[p].pc # "ref_find")
          => LET hits == {i \in DOMAIN tokens : tokens[i].token = procs[p].refreshArg}
             IN  (\/ hits = {}
                  \/ \E i \in hits : tokens[i].isRevoked \/ now > tokens[i].expiresAt)
                 => /\ procs'[p].pc = "done" /\ procs'[p].res.kind = "Unauthorized"
                    /\ tokens' = tokens /\ users' = users
     /\ \A i \in DOMAIN tokens :
          i \in DOMAIN tokens' /\ tokens'[i].token = tokens[i].token]_vars

\* an expired token was presented, rejected as expired, and is still stored,
\* unrevoked; an unknown value was rejected too
C24_Witness ==
  /\ \E p \in Procs :
       /\ Done(p, "Refresh") /\ procs[p].res.msg = "refresh token has expired"
       /\ \E i \in DOMAIN tokens : /\ tokens[i].token = procs[p].refreshArg
                                   /\ ~tokens[i].isRevoked /\ now > tokens[i].expiresAt
  /\ \E p \in Procs :
       /\ Done(p, "Refresh") /\ procs[p].res.msg = "refresh token not found"
       /\ procs[p].res.kind = "Unauthorized"


\* C25: the login-attempt counter is incremented atomically: with concurrent
\* failed Logins of one user the stored counter is the number of increments
\* made, no two calls are returned the same value, and a call that was
\* returned 5 or more has locked the account by the time it returns.
C25_AtomicIncrement ==
  LET failed  == {ev \in events : ev.op = "LoginFailed" /\ ev.userId = 1}
      locking == {p \in Procs : procs[p].pc = "login_lock"}
  IN  /\ users[1].loginAttempts = Cardinality(failed) + Cardinality(locking)
      /\ \A p, q \in Procs :
           (p # q /\ procs[p].attempts > 0 /\ procs[q].attempts > 0)
           => procs[p].attempts # procs[q].attempts
      /\ \A p \in Procs :
           (Done(p, "Login") /\ procs[p].attempts >= MaxLoginAttempts)
           => users[1].lockedUntil # NoTime

\* two concurrent failed Logins both passed the lock check at counter 4, were
\* returned 5 and 6, and the account is locked
C25_Witness ==
  \E p, q \in Procs :
    /\ Done(p, "Login") /\ Done(q, "Login")
    /\ procs[p].attempts = MaxLoginAttempts /\ procs[q].attempts = MaxLoginAttempts + 1
    /\ users[1].loginAttempts = MaxLoginAttempts + 1
    /\ users[1].lockedUntil # NoTime


\* C26: a lock is cleared only by time elapsing: while a user's locked-until is
\* in the future no step removes or shortens it, and no step issues a token
\* bundle for that user.
C26_LockClearedOnlyByTime ==
  [][\A u \in DOMAIN users :
       (users[u].lockedUntil # NoTime /\ now < users[u].lockedUntil)
       => /\ users'[u].lockedUntil # NoTime
          /\ users'[u].lockedUntil >= users[u].lockedUntil
          /\ \A ev \in events' \ events : ev.userId = u => ev.op = "LoginFailed"]_vars


\* C27: for a valid unexpired access token ValidateSession reports the user
\* type, active flag and verified flag of the stored user record, whatever the
\* token captured at issuance; when no such record can be loaded it returns a
\* Database error.
C27_ReportsStoredUser ==
  \A p \in Procs :
    (Done(p, "Validate") /\ ValidateAccessToken(procs[p].accessArg, procs[p].checkedAt))
    => LET id == ParseWithClaims(procs[p].accessArg).user_id
       IN  IF id \in DOMAIN users
             THEN /\ procs[p].res.kind = "ok"
                  /\ procs[p].res.userType = users[id].userType
                  /\ procs[p].res.isActive = users[id].isActive
                  /\ procs[p].res.isVerified = users[id].isVerified
             ELSE procs[p].res.kind = "Database"

\* a token issued to a client was validated while the stored user is an
\* inactive master, and the stored values were reported
C27_Witness ==
  \E p \in Procs :
    /\ Done(p, "Validate") /\ procs[p].res.kind = "ok"
    /\ ParseWithClaims(procs[p].accessArg).user_type = "client"
    /\ procs[p].res.userType = "master" /\ ~procs[p].res.isActive


\* C28: a successful ChangePassword modifies only the stored password hash of
\* the user: every refresh token is as it was, so one that was active before
\* is unrevoked afterwards and can still be exchanged.
C28_PasswordChangeKeepsTokens ==
  [][\A p \in Procs :
       (procs[p].pc = "chg_update" /\ procs'[p].pc = "done")
       => /\ procs'[p].res.kind = "ok"
          /\ tokens' = tokens
          /\ \A u \in DOMAIN users :
               /\ u \in DOMAIN users'
               /\ users'[u] = [users[u] EXCEPT !.password = users'[u].password]]_vars

\* the password was changed, and afterwards the token issued at registration
\* was exchanged: the refresh read the user with the new password
C28_Witness ==
  /\ Done(2, "ChangePassword") /\ procs[2].res.kind = "ok"
  /\ procs[2].newPassword = "N3wPassw0rd!"
  /\ Done(1, "Refresh") /\ procs[1].res.kind = "ok"
  /\ procs[1].refreshArg = GenerateRefreshToken(1)
  /\ CompareHashAndPassword(procs[1].user.password, "N3wPassw0rd!")


\* the requests the claim calls invalid: malformed email, password shorter than
\* 8 characters, a first or last name outside 2..50 characters, a user type
\* other than client or master
ClaimedInvalid(req) ==
  \/ ~ParseAddress(req.email)
  \/ req.password.runes < 8
  \/ req.firstName.runes \notin 2..50 \/ req.firstName.blank
  \/ req.lastName.runes \notin 2..50 \/ req.lastName.blank
  \/ req.userType \notin {"client", "master"}

\* C29: a Register call whose input fails validation returns a Validation
\* error at its first step, before any store access: it never gets past the
\* check, and no user record and no refresh token is created for it.
C29_InvalidRegisterRejected ==
  \A p \in Procs :
    (procs[p].op = "Register" /\ ClaimedInvalid(procs[p].req))
    => /\ procs[p].pc \in {"reg_check", "done"}
       /\ procs[p].pc = "done" => procs[p].res.kind = "Validation"


\* the same for requests whose texts take one byte to the character, where it
\* holds
C29_SingleByteRejected ==
  \A p \in Procs :
    (/\ procs[p].op = "Register" /\ ClaimedInvalid(procs[p].req)
     /\ \A t \in {procs[p].req.password, procs[p].req.firstName, procs[p].req.lastName} :
          t.bytes = t.runes)
    => /\ procs[p].pc \in {"reg_check", "done"}
       /\ procs[p].pc = "done" => procs[p].res.kind = "Validation"


\* the operations that return a token bundle
BundleOps == {"Register", "Login", "OAuthLogin", "Refresh"}

\* C30: a refresh token value returned by a successful Register, Login,
\* OAuthLogin or RefreshSession is at that moment stored as an unrevoked record
\* of the authenticated user that expires at the issue time plus the refresh
\* TTL, and the event has persisted exactly one new refresh token.
C30_ReturnedTokenStored ==
  [][/\ \A ev \in events' \ events :
          ev.op \in BundleOps =>
            LET hits == {i \in DOMAIN tokens' : tokens'[i].token = ev.refresh}
            IN  /\ Cardinality(hits) = 1
                /\ \A i \in hits : /\ i \notin DOMAIN tokens
                                   /\ ~tokens'[i].isRevoked
                                   /\ tokens'[i].userId = ev.userId
                                   /\ tokens'[i].expiresAt = now + RefreshTokenTTL
                /\ Len(tokens') = Len(tokens) + 1
                /\ \E p \in Procs : /\ procs[p].pc # "done" /\ procs'[p].pc = "done"
                                    /\ procs'[p].res.kind = "ok"
                                    /\ procs'[p].res.refresh = ev.refresh
                                    /\ procs'[p].res.userId = ev.userId
     /\ Len(tokens') # Len(tokens) =>
          \E ev \in events' \ events : ev.op \in BundleOps]_vars

\* each of the four operations has returned a bundle
C30_Witness ==
  /\ \A op \in BundleOps : \E ev \in events : ev.op = op
  /\ Len(tokens) = 4
  /\ \A ev \in events : ev.op \in BundleOps
                        => FindRefreshToken(tokens, ev.refresh).userId = ev.userId


\* C31: under any interleaving of Login and OAuthLogin calls for one user, a
\* user whose locked-until is set has a stored login-attempt counter of at
\* least 5.
C31_LockImpliesCounter ==
  \A u \in DOMAIN users :
    users[u].lockedUntil # NoTime => users[u].loginAttempts >= MaxLoginAttempts


\* C32: lock expiry does not reset the attempt counter: after five or more
\* consecutive failed Logins and once the lockout has elapsed, with no
\* successful authentication in between, a single Login with a wrong password
\* locks the account again for a further lockout duration.
C32_RelockAfterExpiry ==
  \A p \in Procs :
    (/\ Done(p, "Login")
     /\ procs[p].streak >= MaxLoginAttempts
     /\ procs[p].checkedAt >= procs[p].lastFailedAt + LockoutDuration
     /\ ~CompareHashAndPassword(procs[p].user.password, procs[p].password))
    => /\ procs[p].res.kind = "Unauthorized"
       /\ procs[p].attempts > MaxLoginAttempts
       /\ GetByID(users, procs[p].user.id).lockedUntil # NoTime
       /\ GetByID(users, procs[p].user.id).lockedUntil >= procs[p].checkedAt + LockoutDuration

\* the account was locked at time 0, the lock ran out, and the sixth Login,
\* with a wrong password, locked it again from then on
C32_Witness ==
  \E p \in Procs :
    /\ Done(p, "Login") /\ procs[p].streak = MaxLoginAttempts
    /\ procs[p].password = "wrong-pass"
    /\ procs[p].checkedAt = LockoutDuration
    /\ procs[p].user.lockedUntil = LockoutDuration
    /\ procs[p].attempts = MaxLoginAttempts + 1
    /\ users[1].lockedUntil = 2 * LockoutDuration


\* C33: Register is all-or-nothing with respect to the user record: when a
\* Register call has returned an error, the store holds no user record that
\* the call created.
C33_RegisterAllOrNothing ==
  \A p \in Procs :
    (Done(p, "Register") /\ procs[p].res.kind # "ok")
    => ~\E u \in DOMAIN users : procs[p].user.id = u /\ procs[p].creates > 0


\* C34: the expiresAt returned by a successful ValidateToken is the expiry
\* signed into the access token when it was issued (issue time plus the access
\* token lifetime, in whole seconds), the instant from which the token is
\* refused.
C34_ExpiresAtIsSignedExpiry ==
  \A p \in Procs :
    (Done(p, "Validate") /\ procs[p].res.kind = "ok")
    => \E ev \in events :
         /\ ev.access = procs[p].accessArg
         /\ procs[p].res.expiresAt = Unix(ev.at + AccessTokenTTL)
         /\ procs[p].res.expiresAt = Unix(ParseWithClaims(procs[p].accessArg).exp)


\* C35: a ChangePassword call that fails because the old password does not
\* match returns Unauthorized and leaves the user records as they were: no
\* step of the call changes a stored password hash, login-attempt counter or
\* locked-until timestamp, however often the call is repeated.
C35_FailedChangeKeepsUser ==
  [][\A p \in Procs :
       (/\ procs'[p].op = "ChangePassword"
        /\ procs'[p] # procs[p]
        /\ \/ procs'[p].pc = "chg_get"
           \/ /\ procs[p].pc = "chg_get" /\ procs'[p].pc = "done"
              /\ ~CompareHashAndPassword(GetByID(users, procs'[p].userIdArg).password,
                                         procs'[p].password))
       => /\ users' = users
          /\ procs'[p].pc = "done" =>
               procs'[p].res.kind = IF GetByID(users, procs'[p].userIdArg).id = 0
                                      THEN "Database" ELSE "Unauthorized"]_vars

\* the third call or a later one is a ChangePassword refused for its old
\* password, made of a user with failed logins on record
C35_Witness ==
  /\ Done(2, "ChangePassword") /\ procs[2].res.kind = "Unauthorized"
  /\ procs[2].callNo >= 3
  /\ users[1].loginAttempts > 0
  /\ users[1].password = GenerateFromPassword("Passw0rd!")


\* C36: under any interleaving of two concurrent OAuthLogin calls with
\* verified tokens for one email the store has never seen, there is never more
\* than one user record with that email, there is exactly one once both calls
\* have returned, and every call that returns a token bundle returns it for that
\* user id.
C36_OneUserPerOAuthEmail ==
  \A e \in Emails \ {RegisteredUser.email} :
    LET calls == {p \in Procs : /\ procs[p].op = "OAuthLogin"
                                /\ procs[p].provider \in Providers
                                /\ VerifyIDToken(procs[p].idToken).ok
                                /\ VerifyIDToken(procs[p].idToken).email = e}
        recs  == {u \in DOMAIN users : users[u].email = e}
    IN  /\ Cardinality(recs) <= 1
        /\ (calls # {} /\ \A p \in calls : procs[p].pc = "done") => Cardinality(recs) = 1
        /\ \A p \in calls :
             (procs[p].pc = "done" /\ procs[p].res.kind = "ok")
             => /\ procs[p].res.userId \in recs
                /\ ParseWithClaims(procs[p].res.access).user_id = procs[p].res.userId
                /\ FindRefreshToken(tokens, procs[p].res.refresh).userId = procs[p].res.userId

\* both callers found no user for the email; one created it and was given a
\* bundle, the other's Create met the unique index
C36_Witness ==
  \E e \in Emails \ {RegisteredUser.email} :
    /\ \A p \in Callers : /\ Done(p, "OAuthLogin")
                           /\ VerifyIDToken(procs[p].idToken).email = e
    /\ procs[1].res.kind = "ok"
    /\ procs[2].res.kind = "Database"
    /\ Cardinality({u \in DOMAIN users : users[u].email = e}) = 1


\* C37: RequireAuth lets a request through to the handler only if its
\* Authorization header carries a Bearer token that ValidateToken accepted;
\* every other request is aborted with Unauthorized and the handler does not
\* run.
C37_OnlyValidatedRequestsPass ==
  \A p \in Procs :
    Done(p, "RequireAuth")
    => LET authHeader == procs[p].authHeader
       IN  /\ procs[p].admitted
                => /\ HasPrefix(authHeader, "Bearer ")
                   /\ authHeader.token # NoAccess
                   /\ ValidateToken(authHeader.token, users, procs[p].checkedAt).kind = "ok"
           /\ ~procs[p].admitted => procs[p].res.kind = "Unauthorized"
           /\ (\/ ~HasPrefix(authHeader, "Bearer ")
               \/ authHeader.token = NoAccess
               \/ ValidateToken(authHeader.token, users, procs[p].checkedAt).kind # "ok")
              => ~procs[p].admitted


\* C38: under any interleaving of concurrent requests from one address, the
\* RateLimiter lets at most limit requests through per lifetime of the
\* address's counter key, and a request that raised the counter above limit
\* is aborted with a RateLimit error and never reaches the handler.
C38_AtMostLimitPerLifetime ==
  /\ \A ip \in IPs : \A gen \in 1..rdb[ip].gen :
        Cardinality({r \in passed : r[1] = ip /\ r[2] = gen}) <= limit
  /\ \A p \in Procs :
        Done(p, "RateLimiter")
        => /\ procs[p].count > limit
                => procs[p].res.kind = "RateLimit" /\ ~procs[p].admitted
           /\ procs[p].admitted
                <=> <<procs[p].ip, procs[p].gen, procs[p].callNo>> \in passed
           /\ ~procs[p].admitted => procs[p].res.kind \in {"RateLimit", "Internal"}

\* two requests from one address went through and the third, which raised the
\* same counter to limit + 1, was refused
C38_Witness ==
  \E ip \in IPs, p \in Procs :
    /\ Cardinality({r \in passed : r[1] = ip /\ r[2] = 1}) = limit
    /\ Done(p, "RateLimiter") /\ procs[p].ip = ip /\ procs[p].gen = 1
    /\ procs[p].count = limit + 1
    /\ procs[p].res.kind = "RateLimit"


\* C39: every counter key that exists carries a TTL of at most window once
\* the request that created it is over, whether or not that request failed
\* between the increment and the setting of the TTL, so that a blocked
\* address is admitted again.
C39_EveryKeyExpires ==
  \A ip \in IPs :
    (/\ Live(rdb[ip], now)
     /\ ~\E p \in Procs : /\ procs[p].pc = "rl_expire" /\ procs[p].ip = ip
                           /\ procs[p].gen = rdb[ip].gen)
    => /\ rdb[ip].expireAt # NoTime
       /\ rdb[ip].expireAt <= now + window

====
